---- MODULE Spec2Model ----
(***************************************************************************)
(* A model of xpath-to-json (src/src/main.rs): the selector translator     *)
(* xpath_to_css_selector, the rule evaluator process_rule / process_html,  *)
(* the calendar resolver find_items_for_day_in_month and the template      *)
(* projector process_hierarchical_template with its helpers.               *)
(*                                                                         *)
(* Rust strings are sequences of one-character strings, so that trimming,  *)
(* slicing, searching, parsing and formatting are computed, not assumed.   *)
(* serde_json values are tagged records [t, v]; a serde_json::Map is the   *)
(* sequence of its [k, v] entries in iteration order.                      *)
(***************************************************************************)
EXTENDS Integers, Sequences, FiniteSets, TLC

\* --------------------------------------------------------------------
\* Rust str operations used by the program
\* --------------------------------------------------------------------

\* char::is_whitespace, restricted to the characters the documents use
Whitespace == {" ", "\t", "\n"}

Digits == <<"0","1","2","3","4","5","6","7","8","9">>

DigitSet == {Digits[i] : i \in 1..10}

\* the regex class \w
WordChars ==
    DigitSet \cup {"_"} \cup
    {"a","b","c","d","e","f","g","h","i","j","k","l","m",
     "n","o","p","q","r","s","t","u","v","w","x","y","z",
     "A","B","C","D","E","F","G","H","I","J","K","L","M",
     "N","O","P","Q","R","S","T","U","V","W","X","Y","Z"}

\* s[i..] (0-based, to the end) of Rust, as a 1-based sequence
from(s, i) == SubSeq(s, i + 1, Len(s))

starts_with(s, p) == Len(p) <= Len(s) /\ SubSeq(s, 1, Len(p)) = p

ends_with(s, p) == Len(p) <= Len(s) /\ SubSeq(s, Len(s) - Len(p) + 1, Len(s)) = p

\* str::find: the 1-based index of the first occurrence of p in s, 0 for None
find(s, p) ==
    LET first_of(hits) == IF hits = {} THEN 0 ELSE CHOOSE i \in hits : \A j \in hits : i <= j
    IN  first_of({i \in 1..(Len(s) - Len(p) + 1) : SubSeq(s, i, i + Len(p) - 1) = p})

contains(s, p) == find(s, p) # 0

\* str::replace: every non-overlapping occurrence, left to right
RECURSIVE replace(_, _, _)
replace(s, p, r) ==
    LET at(i) == IF p = <<>> \/ i = 0 THEN s
                 ELSE SubSeq(s, 1, i - 1) \o r \o replace(SubSeq(s, i + Len(p), Len(s)), p, r)
    IN  at(find(s, p))

RECURSIVE trim_start(_)
trim_start(s) ==
    IF s # <<>> /\ Head(s) \in Whitespace THEN trim_start(Tail(s)) ELSE s

RECURSIVE trim_end(_)
trim_end(s) ==
    IF s # <<>> /\ s[Len(s)] \in Whitespace THEN trim_end(SubSeq(s, 1, Len(s) - 1)) ELSE s

trim(s) == trim_end(trim_start(s))

\* TRUE of every string: where it is asked, the string is computed before
\* the evaluation goes on
evaluated(s) == Len(s) >= 0

\* the least element of a non-empty set of integers
least(S) == CHOOSE i \in S : \A j \in S : i <= j

\* the longest prefix of s made of characters of the set cs
take_while(s, cs) ==
    LET before(stops) == IF stops = {} THEN s ELSE SubSeq(s, 1, least(stops) - 1)
    IN  before({i \in 1..Len(s) : s[i] \notin cs})

\* the longest prefix of s with no character of the set cs
take_until(s, cs) ==
    LET before(stops) == IF stops = {} THEN s ELSE SubSeq(s, 1, least(stops) - 1)
    IN  before({i \in 1..Len(s) : s[i] \in cs})

\* the longest suffix of s made of characters of the set cs
take_back(s, cs) ==
    LET after(stops) ==
            IF stops = {} THEN s
            ELSE SubSeq(s, (CHOOSE i \in stops : \A j \in stops : j <= i) + 1, Len(s))
    IN  after({i \in 1..Len(s) : s[i] \notin cs})

\* s.split_whitespace().next(): the first whitespace-delimited token; a token
\* is never empty, so <<>> stands for None
split_whitespace_next(s) == take_until(trim_start(s), Whitespace)

\* s.split_whitespace().collect(): every token
RECURSIVE split_whitespace(_)
split_whitespace(s) ==
    LET token(t, w) == <<w>> \o split_whitespace(SubSeq(t, Len(w) + 1, Len(t)))
        tokens(t) == IF t = <<>> THEN <<>> ELSE token(t, take_until(t, Whitespace))
    IN  tokens(trim_start(s))

\* s.split_once(p): <<before, after>>, or <<>> for None
split_once(s, p) ==
    LET at(i) == IF i = 0 THEN <<>>
                 ELSE <<SubSeq(s, 1, i - 1), SubSeq(s, i + Len(p), Len(s))>>
    IN  at(find(s, p))

DigitVal(c) == CHOOSE d \in 0..9 : Digits[d + 1] = c

RECURSIVE digits_value(_, _)
digits_value(s, acc) ==
    IF s = <<>> THEN acc ELSE digits_value(Tail(s), acc * 10 + DigitVal(Head(s)))

\* str::parse::<usize>(): an optional "+", then at least one decimal digit;
\* -1 stands for Err. (Values beyond usize::MAX are outside the model's bounds.)
parse_usize(s) ==
    LET value(body) == IF body = <<>> \/ \E i \in 1..Len(body) : body[i] \notin DigitSet
                       THEN -1
                       ELSE digits_value(body, 0)
    IN  value(IF s # <<>> /\ Head(s) = "+" THEN Tail(s) ELSE s)

\* usize::to_string(): decimal digits, no sign, no leading zero
RECURSIVE to_string(_)
to_string(n) ==
    IF n < 10 THEN <<Digits[n + 1]>>
    ELSE to_string(n \div 10) \o <<Digits[(n % 10) + 1]>>

\* the concatenation of a sequence of strings
RECURSIVE concat(_)
concat(ss) == IF ss = <<>> THEN <<>> ELSE Head(ss) \o concat(Tail(ss))

Min(a, b) == IF a <= b THEN a ELSE b

\* --------------------------------------------------------------------
\* serde_json::Value and serde_json::Map
\* --------------------------------------------------------------------

Null == [t |-> "null", v |-> 0]

String(s) == [t |-> "str", v |-> s]

Number(n) == [t |-> "num", v |-> n]

Bool(b) == [t |-> "bool", v |-> b]

Array(a) == [t |-> "arr", v |-> a]

Object(m) == [t |-> "obj", v |-> m]

\* Option::None for lookups that return Option<&Value>
None == [t |-> "none", v |-> 0]

is_none(x) == x.t = "none"

is_str(x) == x.t = "str"

is_array(x) == x.t = "arr"

is_object(x) == x.t = "obj"

\* Map::get
get(m, k) ==
    LET found(hits) == IF hits = {} THEN None ELSE m[CHOOSE i \in hits : TRUE].v
    IN  found({i \in 1..Len(m) : m[i].k = k})

contains_key(m, k) == \E i \in 1..Len(m) : m[i].k = k

\* Map::insert: a new key is appended; an existing key keeps its place and
\* takes the new value
insert(m, k, x) ==
    IF contains_key(m, k)
    THEN [i \in 1..Len(m) |-> IF m[i].k = k THEN [k |-> k, v |-> x] ELSE m[i]]
    ELSE Append(m, [k |-> k, v |-> x])

keys(m) == [i \in 1..Len(m) |-> m[i].k]

\* raw_data.get(k).and_then(|v| v.as_array()).unwrap_or(&empty_vec)
array_or_empty(m, k) ==
    LET as_array(x) == IF is_array(x) THEN x.v ELSE <<>>
    IN  as_array(get(m, k))

\* --------------------------------------------------------------------
\* scraper: the parsed document and its selectors
\* --------------------------------------------------------------------
\* Html::parse_document gives a tree; here it is the sequence of its nodes in
\* document order, each with the index of its parent (0 for the root). A text
\* node has the empty tag.

El(tag, parent, attrs) == [tag |-> tag, parent |-> parent, attrs |-> attrs, text |-> <<>>]

Tx(parent, txt) == [tag |-> <<>>, parent |-> parent, attrs |-> <<>>, text |-> txt]

is_element(doc, i) == doc[i].tag # <<>>

\* a is a proper ancestor of node i
RECURSIVE is_ancestor(_, _, _)
is_ancestor(doc, a, i) ==
    LET p == doc[i].parent
    IN  p # 0 /\ (p = a \/ is_ancestor(doc, a, p))

\* the indices lo..hi as a sequence
range(lo, hi) == [i \in 1..(hi - lo + 1) |-> lo + i - 1]

\* element.text().collect::<String>(): the text nodes below the element, in
\* document order
text(doc, i) ==
    LET below(j) == doc[j].tag = <<>> /\ is_ancestor(doc, i, j)
        texts(nodes) == concat([k \in 1..Len(nodes) |-> doc[nodes[k]].text])
    IN  texts(SelectSeq(range(1, Len(doc)), below))

\* element.value().attr(name): String(value), or None
attr(doc, i, name) == get(doc[i].attrs, name)

children(doc, i) ==
    LET child(j) == doc[j].parent = i
    IN  SelectSeq(range(1, Len(doc)), child)

\* element.html(): the element serialized with its tag, attributes and content
RECURSIVE html(_, _)
html(doc, i) ==
    LET element(as, cs) ==
            <<"<">> \o doc[i].tag
            \o concat([k \in 1..Len(as) |-> <<" ">> \o as[k].k \o <<"=","\"">> \o as[k].v.v \o <<"\"">>])
            \o <<">">>
            \o concat([k \in 1..Len(cs) |-> html(doc, cs[k])])
            \o <<"<","/">> \o doc[i].tag \o <<">">>
    IN  IF doc[i].tag = <<>> THEN doc[i].text
        ELSE element(doc[i].attrs, children(doc, i))

\* The selector grammar of the model: compound selectors separated by
\* spaces (the descendant combinator), a compound being an optional tag name
\* followed by .class, [attr], [attr="v"], [attr*="v"] and :nth-child(n)
\* parts. Every selector the program builds from the expressions of this
\* model is either in this grammar or is rejected by the CSS grammar too.
IdentChars == WordChars \cup {"-"}

EmptyCompound == [tag |-> <<>>, classes |-> <<>>, attrs |-> <<>>, nth |-> -1]

CompoundErr == [ok |-> FALSE, c |-> EmptyCompound, rest |-> <<>>]

is_ident(id) == id # <<>> /\ id[1] \notin DigitSet /\ id # <<"-">>

\* one [..] part, s starting after the "[": the attribute test and what follows "]"
parse_attribute(s) ==
    LET failed == [ok |-> FALSE, a |-> <<>>, rest |-> <<>>]
        operator(after) ==
            IF starts_with(after, <<"*","=">>) THEN <<"*","=">>
            ELSE IF starts_with(after, <<"=">>) THEN <<"=">> ELSE <<>>
        test(name, op, value, closing) ==
            IF op # <<>> /\ starts_with(closing, <<"\"","]">>)
            THEN [ok |-> TRUE, a |-> <<name, op, value>>, rest |-> from(closing, 2)]
            ELSE failed
        quoted(name, op, q) ==
            IF starts_with(q, <<"\"">>)
            THEN test(name, op, take_until(from(q, 1), {"\""}),
                      from(q, 1 + Len(take_until(from(q, 1), {"\""}))))
            ELSE failed
        named(name, after) ==
            IF ~is_ident(name) THEN failed
            ELSE IF starts_with(after, <<"]">>)
            THEN [ok |-> TRUE, a |-> <<name, <<"h","a","s">>, <<>>>>, rest |-> from(after, 1)]
            ELSE quoted(name, operator(after), from(after, Len(operator(after))))
        of(name) == named(name, from(s, Len(name)))
    IN  of(take_while(s, IdentChars))

RECURSIVE parse_compound(_, _, _)
parse_compound(s, c, seen) ==
    LET class(id) ==
            IF ~is_ident(id) THEN CompoundErr
            ELSE parse_compound(from(s, 1 + Len(id)),
                                [c EXCEPT !.classes = Append(@, id)], TRUE)
        attribute(r) ==
            IF ~r.ok THEN CompoundErr
            ELSE parse_compound(r.rest, [c EXCEPT !.attrs = Append(@, r.a)], TRUE)
        nth(n) ==
            IF n = <<>> \/ ~starts_with(from(s, 11 + Len(n)), <<")">>) THEN CompoundErr
            ELSE parse_compound(from(s, 12 + Len(n)),
                                [c EXCEPT !.nth = parse_usize(n)], TRUE)
        tag(id) ==
            IF ~is_ident(id) THEN CompoundErr
            ELSE parse_compound(from(s, Len(id)), [c EXCEPT !.tag = id], TRUE)
    IN  IF s = <<>> \/ Head(s) = " " THEN [ok |-> seen, c |-> c, rest |-> s]
        ELSE IF Head(s) = "." THEN class(take_while(Tail(s), IdentChars))
        ELSE IF Head(s) = "[" THEN attribute(parse_attribute(Tail(s)))
        ELSE IF starts_with(s, <<":","n","t","h","-","c","h","i","l","d","(">>) THEN nth(take_while(from(s, 11), DigitSet))
        ELSE IF ~seen THEN tag(take_while(s, IdentChars))
        ELSE CompoundErr

RECURSIVE parse_complex(_, _)
parse_complex(s, acc) ==
    LET next(r) == IF ~r.ok THEN [ok |-> FALSE, sel |-> <<>>]
                   ELSE parse_complex(r.rest, Append(acc, r.c))
        compound(t) == IF t = <<>> THEN [ok |-> acc # <<>>, sel |-> acc]
                       ELSE next(parse_compound(t, EmptyCompound, FALSE))
    IN  compound(trim_start(s))

\* Selector::parse: [ok |-> TRUE, sel |-> the compounds], or ok = FALSE for Err
Selector_parse(css) == parse_complex(css, <<>>)

class_list(doc, i) ==
    LET classes(c) == IF is_none(c) THEN <<>> ELSE split_whitespace(c.v)
    IN  classes(attr(doc, i, <<"c","l","a","s","s">>))

\* the position of element i among the element children of its parent
nth_child(doc, i) ==
    Cardinality({j \in 1..i : doc[j].parent = doc[i].parent /\ is_element(doc, j)})

matches_attribute(doc, i, a) ==
    LET test(x) ==
            /\ ~is_none(x)
            /\ \/ a[2] = <<"h","a","s">>
               \/ a[2] = <<"=">> /\ x.v = a[3]
               \/ a[2] = <<"*","=">> /\ a[3] # <<>> /\ contains(x.v, a[3])
    IN  test(attr(doc, i, a[1]))

matches_compound(doc, i, c) ==
    LET has_classes(list) ==
            \A k \in 1..Len(c.classes) : \E n \in 1..Len(list) : list[n] = c.classes[k]
    IN  /\ is_element(doc, i)
        /\ c.tag = <<>> \/ doc[i].tag = c.tag
        /\ has_classes(class_list(doc, i))
        /\ \A k \in 1..Len(c.attrs) : matches_attribute(doc, i, c.attrs[k])
        /\ c.nth = -1 \/ nth_child(doc, i) = c.nth

\* element i matches the first k compounds of sel, ancestors matching the
\* earlier ones (descendant combinators)
RECURSIVE matches(_, _, _, _)
matches(doc, i, sel, k) ==
    /\ matches_compound(doc, i, sel[k])
    /\ \/ k = 1
       \/ \E a \in 1..Len(doc) : is_ancestor(doc, a, i) /\ matches(doc, a, sel, k - 1)

\* document.select(&selector): the matching elements in document order
select(doc, sel) ==
    LET hit(i) == matches(doc, i, sel, Len(sel))
    IN  SelectSeq(range(1, Len(doc)), hit)

\* element.select(&selector): the matching elements below the element
select_in(doc, e, sel) ==
    LET hit(i) == is_ancestor(doc, e, i) /\ matches(doc, i, sel, Len(sel))
    IN  SelectSeq(range(1, Len(doc)), hit)

\* --------------------------------------------------------------------
\* The day/month association resolver
\* --------------------------------------------------------------------

\* the selectors find_items_for_day_in_month parses (and unwraps)
table_selector == Selector_parse(<<"t","a","b","l","e">>).sel

row_selector == Selector_parse(<<"t","r">>).sel

day_num_selector == Selector_parse(<<"t","d",".","c","a","l","t","a","b","l","e","t","d","n","u","m">>).sel

item_selector == Selector_parse(<<"t","d",".","c","a","l","t","a","b","l","e","t","d","e","v","t">>).sel

link_selector == Selector_parse(<<"a">>).sel

\* the non-empty trimmed texts of the elements es, in order
RECURSIVE trimmed_texts(_, _)
trimmed_texts(doc, es) ==
    LET push(s) == IF s = <<>> THEN <<>> ELSE <<s>>
    IN  IF es = <<>> THEN <<>>
        ELSE push(trim(text(doc, Head(es)))) \o trimmed_texts(doc, Tail(es))

\* Vec::iter().position(|d| d == x): the 0-based index of the first x, -1 for None
position(seq, x) ==
    LET first_of(hits) ==
            IF hits = {} THEN -1 ELSE (CHOOSE i \in hits : \A j \in hits : i <= j) - 1
    IN  first_of({i \in 1..Len(seq) : seq[i] = x})

\* the texts of the links of each of the cells
item_cells(doc, cells) ==
    [c \in 1..Len(cells) |-> trimmed_texts(doc, select_in(doc, cells[c], link_selector))]

\* the items of row i of rows for the day: the links of the cell of the next
\* row at the day's index among the row's non-empty day numbers
row_items(doc, rows, i, day) ==
    LET items(day_index, cells) ==
            IF day_index # -1 /\ day_index < Len(cells)
            THEN [k \in 1..Len(cells[day_index + 1]) |-> String(cells[day_index + 1][k])]
            ELSE <<>>
    IN  IF i + 1 <= Len(rows)
        THEN items(position(trimmed_texts(doc, select_in(doc, rows[i], day_num_selector)),
                            day),
                   item_cells(doc, select_in(doc, rows[i + 1], item_selector)))
        ELSE <<>>

\* the items of one table for the day
table_items(doc, t, day, month) ==
    LET items(table_text, rows) ==
            IF /\ contains(table_text, <<"E","x","-","D","i","v","i","d","e","n","d"," ","C","a","l","e","n","d","a","r">>)
               /\ is_none(month) \/ contains(table_text, month.v)
            THEN concat([i \in 1..Len(rows) |-> row_items(doc, rows, i, day)])
            ELSE <<>>
    IN  items(text(doc, t), select_in(doc, t, row_selector))

\* the resolver stopping at the first table that has items for the day
find_items_in_first_table(doc, day, month) ==
    LET of(tables) ==
            LET per == [n \in 1..Len(tables) |-> table_items(doc, tables[n], day, month)]
                hits == {n \in 1..Len(tables) : per[n] # <<>>}
            IN  IF hits = {} THEN <<>> ELSE per[CHOOSE n \in hits : \A m \in hits : n <= m]
    IN  of(select(doc, table_selector))

\* month is None or String(month_name); the result is the Vec the function
\* returns (it returns Ok on every path)
find_items_for_day_in_month(doc, day, month) ==
    LET of(tables) == concat([n \in 1..Len(tables) |-> table_items(doc, tables[n], day, month)])
    IN  of(select(doc, table_selector))

find_items_for_day(doc, day) == find_items_for_day_in_month(doc, day, None)

\* --------------------------------------------------------------------
\* The template projector
\* --------------------------------------------------------------------
\* chrono::Utc::now() is the parameter clock, a record of the four strings
\* the reserved identifiers format from it. The iteration order of a
\* std::collections::HashMap is the parameter seed: a ranking of the keys by
\* the position of their first insertion, any ranking being possible.

\* the elements of seq in increasing rank, rank being keyed by position
by_rank(seq, rank) ==
    LET n == Len(seq)
        at(j) == CHOOSE i \in 1..n :
                    Cardinality({i2 \in 1..n : rank[i2] < rank[i]}) = j - 1
    IN  [j \in 1..n |-> seq[at(j)]]

\* slice::sort_by on the keys key[i]: stable, so equal keys keep their order
stable_sort_by(seq, key) ==
    LET n == Len(seq)
        before(i2, i) == key[i2] < key[i] \/ (key[i2] = key[i] /\ i2 < i)
        at(j) == CHOOSE i \in 1..n :
                    Cardinality({i2 \in 1..n : before(i2, i)}) = j - 1
    IN  [j \in 1..n |-> seq[at(j)]]

month_order ==
    << <<"J","a","n","u","a","r","y">>, <<"F","e","b","r","u","a","r","y">>, <<"M","a","r","c","h">>, <<"A","p","r","i","l">>, <<"M","a","y">>, <<"J","u","n","e">>,
       <<"J","u","l","y">>, <<"A","u","g","u","s","t">>, <<"S","e","p","t","e","m","b","e","r">>, <<"O","c","t","o","b","e","r">>, <<"N","o","v","e","m","b","e","r">>, <<"D","e","c","e","m","b","e","r">> >>

\* month_order.iter().position(|&m| m == name).unwrap_or(12)
month_index(name) ==
    IF position(month_order, name) = -1 THEN 12 ELSE position(month_order, name)

\* a.as_str().and_then(|s| s.split_whitespace().next()).unwrap_or("")
month_sort_name(a) == IF is_str(a) THEN split_whitespace_next(a.v) ELSE <<>>

\* a sort that leaves the months as the page lists them
sort_months_as_given(months_array) == months_array

sort_months(months_array) ==
    stable_sort_by(months_array,
                   [i \in 1..Len(months_array) |->
                       month_index(month_sort_name(months_array[i]))])

\* key[1..key.len()-1]: the text between the braces
strip_braces(key) == SubSeq(key, 2, Len(key) - 1)

is_placeholder(s) == starts_with(s, <<"{">>) /\ ends_with(s, <<"}">>)

\* the zip without the trimming of the strings
process_paired_data_untrimmed(key_template, value_template, raw_data) ==
    LET key_array == array_or_empty(raw_data, strip_braces(key_template))
        value_array == array_or_empty(raw_data, strip_braces(value_template))
        pair(i) == IF is_str(key_array[i]) /\ is_str(value_array[i])
                   THEN << Object(<< [k |-> key_array[i].v, v |-> value_array[i]] >>) >>
                   ELSE <<>>
    IN  Array(concat([i \in 1..Min(Len(key_array), Len(value_array)) |-> pair(i)]))

process_paired_data(key_template, value_template, raw_data) ==
    LET key_array == array_or_empty(raw_data, strip_braces(key_template))
        value_array == array_or_empty(raw_data, strip_braces(value_template))
        min_len == Min(Len(key_array), Len(value_array))
        pair(i) == IF is_str(key_array[i]) /\ is_str(value_array[i])
                   THEN << Object(<< [k |-> trim(key_array[i].v),
                                      v |-> String(trim(value_array[i].v))] >>) >>
                   ELSE <<>>
    IN  Array(concat([i \in 1..min_len |-> pair(i)]))

\* the grouping with the day index counted from the item after
RECURSIVE group_items_shifted(_, _, _, _)
group_items_shifted(days, items, i, acc) ==
    IF i > Len(items) THEN acc
    ELSE LET day_value == days[(i % Len(days)) + 1]
             day_key == trim(day_value.v)
             old == IF contains_key(acc, day_key) THEN get(acc, day_key).v ELSE <<>>
         IN  group_items_shifted(days, items, i + 1,
                                 IF is_str(day_value)
                                 THEN insert(acc, day_key, Array(Append(old, items[i])))
                                 ELSE acc)

\* the entries of day_items_map after the loop over items: each day label in
\* the order of its first insertion, with the items pushed to it
RECURSIVE group_items(_, _, _, _)
group_items(days, items, i, acc) ==
    IF i > Len(items) THEN acc
    ELSE LET day_value == days[((i - 1) % Len(days)) + 1]
             day_key == trim(day_value.v)
             old == IF contains_key(acc, day_key) THEN get(acc, day_key).v ELSE <<>>
         IN  group_items(days, items, i + 1,
                         IF is_str(day_value)
                         THEN insert(acc, day_key, Array(Append(old, items[i])))
                         ELSE acc)

process_days_with_items(raw_data, seed) ==
    LET days == array_or_empty(raw_data, <<"d","a","y","s">>)
        items == array_or_empty(raw_data, <<"i","t","e","m","s">>)
        day_items_map == IF days = <<>> THEN <<>> ELSE group_items(days, items, 1, <<>>)
    IN  Object(by_rank(day_items_map, seed))

\* the even split without the remainder for the last day
even_split_no_remainder(days, items, day_index) ==
    LET items_per_day == Len(items) \div Len(days)
        start_index == day_index * items_per_day
    IN  SubSeq(items, start_index + 1, Min(start_index + items_per_day, Len(items)))

\* the slice of items for the day at day_index under the even split
even_split(days, items, day_index) ==
    LET items_per_day == Len(items) \div Len(days)
        start_index == day_index * items_per_day
        end_index == IF day_index = Len(days) - 1 THEN Len(items)
                     ELSE start_index + items_per_day
    IN  SubSeq(items, start_index + 1, Min(end_index, Len(items)))

process_numbered_days_with_items(raw_data, day_index) ==
    LET days == array_or_empty(raw_data, <<"d","a","y","s">>)
        items == array_or_empty(raw_data, <<"i","t","e","m","s">>)
    IN  IF day_index < Len(days) /\ is_str(days[day_index + 1])
        THEN IF items # <<>> THEN Array(even_split(days, items, day_index))
             ELSE Array(<<>>)
        ELSE Array(<<>>)

\* the entries for the days start_day..=end_day with day 0 kept
RECURSIVE day_range_keep_zero(_, _, _, _)
day_range_keep_zero(day_items_obj, i, end_day, result) ==
    IF i > end_day THEN result
    ELSE day_range_keep_zero(day_items_obj, i + 1, end_day,
                             insert(result, to_string(i),
                                    IF ~is_none(get(day_items_obj, to_string(i)))
                                    THEN get(day_items_obj, to_string(i))
                                    ELSE Array(<<>>)))

\* the entries for the days start_day..=end_day, day 0 skipped
RECURSIVE day_range(_, _, _, _)
day_range(day_items_obj, i, end_day, result) ==
    IF i > end_day THEN result
    ELSE IF i = 0 THEN day_range(day_items_obj, i + 1, end_day, result)
    ELSE LET day_key == to_string(i)
             day_items == get(day_items_obj, day_key)
         IN  day_range(day_items_obj, i + 1, end_day,
                       insert(result, day_key,
                              IF ~is_none(day_items) THEN day_items ELSE Array(<<>>)))

\* the fallback of process_day_range_with_items: the even split, keyed by
\* the day labels
RECURSIVE day_split(_, _, _, _)
day_split(days, items, day_index, result) ==
    IF day_index >= Len(days) THEN result
    ELSE day_split(days, items, day_index + 1,
                   IF is_str(days[day_index + 1])
                   THEN insert(result, trim(days[day_index + 1].v),
                               Array(even_split(days, items, day_index)))
                   ELSE result)

process_day_range_with_items(raw_data, start_day, end_day) ==
    LET day_items_obj == get(raw_data, <<"d","a","y","_","i","t","e","m","s">>)
        days == array_or_empty(raw_data, <<"d","a","y","s">>)
        items == array_or_empty(raw_data, <<"i","t","e","m","s">>)
    IN  IF is_object(day_items_obj)
        THEN Object(day_range(day_items_obj.v, start_day, end_day, <<>>))
        ELSE IF days # <<>> /\ items # <<>>
        THEN Object(day_split(days, items, 0, <<>>))
        ELSE Object(<<>>)

process_template_variable(key, raw_data, clock) ==
    LET rule_name == strip_braces(key)
        months_value == get(raw_data, <<"m","o","n","t","h","s">>)
        days_value == get(raw_data, <<"d","a","y","s">>)
        day_index == parse_usize(from(rule_name, 4))
        raw_value == get(raw_data, rule_name)
    IN  IF ~is_placeholder(key) THEN key
        ELSE IF rule_name = <<"c","u","r","r","e","n","t","Y","e","a","r">> THEN clock.year
        ELSE IF rule_name = <<"c","u","r","r","e","n","t","M","o","n","t","h">> THEN clock.month
        ELSE IF rule_name = <<"c","u","r","r","e","n","t","D","a","y">> THEN clock.day
        ELSE IF rule_name = <<"c","u","r","r","e","n","t","D","a","t","e">> THEN clock.date
        ELSE IF rule_name = <<"m","o","n","t","h","s">>
        THEN IF is_array(months_value) /\ months_value.v # <<>>
                /\ is_str(months_value.v[1])
             THEN IF split_whitespace_next(months_value.v[1].v) = <<>>
                  THEN <<"O","c","t","o","b","e","r">>
                  ELSE split_whitespace_next(months_value.v[1].v)
             ELSE key
        ELSE IF starts_with(rule_name, <<"d","a","y","s">>) /\ Len(rule_name) > 4
        THEN IF contains(rule_name, <<"-">>) THEN rule_name
             ELSE IF day_index # -1 /\ is_array(days_value)
                     /\ day_index < Len(days_value.v)
                     /\ is_str(days_value.v[day_index + 1])
             THEN trim(days_value.v[day_index + 1].v)
             ELSE key
        ELSE IF is_array(raw_value)
        THEN IF raw_value.v # <<>> /\ is_str(raw_value.v[1])
             THEN trim(raw_value.v[1].v) ELSE key
        ELSE IF is_str(raw_value) THEN trim(raw_value.v)
        ELSE key

RECURSIVE process_hierarchical_template(_, _, _, _, _)

\* day_items of the month-scoped copy: every day key of day_items_obj looked
\* up again in the tables of the month
month_day_items(doc, day_items_obj, full_month_name) ==
    [i \in 1..Len(day_items_obj) |->
        [k |-> day_items_obj[i].k,
         v |-> Array(find_items_for_day_in_month(doc, day_items_obj[i].k,
                                                 String(full_month_name)))]]

\* the (month_name, processed_value) pairs pushed to month_results
RECURSIVE month_results(_, _, _, _, _, _)
month_results(sorted_months, value, raw_data, doc, clock, seed) ==
    IF sorted_months = <<>> THEN <<>>
    ELSE LET month_value == Head(sorted_months)
             first == split_whitespace_next(month_value.v)
             month_name == IF first = <<>> THEN <<"O","c","t","o","b","e","r">> ELSE first
             full_month_name == month_name \o <<" ","2","0","2","5">>
             day_items_obj == get(raw_data, <<"d","a","y","_","i","t","e","m","s">>)
             month_raw_data ==
                 IF is_object(day_items_obj)
                 THEN insert(raw_data, <<"d","a","y","_","i","t","e","m","s">>,
                             Object(month_day_items(doc, day_items_obj.v, full_month_name)))
                 ELSE raw_data
             rest == month_results(Tail(sorted_months), value, raw_data, doc, clock, seed)
         IN  IF is_str(month_value)
             THEN << [k |-> month_name,
                      v |-> process_hierarchical_template(value, month_raw_data, doc,
                                                          clock, seed)] >> \o rest
             ELSE rest

RECURSIVE insert_all(_, _)
insert_all(result, entries) ==
    IF entries = <<>> THEN result
    ELSE insert_all(insert(result, Head(entries).k, Head(entries).v), Tail(entries))

\* one pass of the loop over the entries of a template object
process_entry(result, key, value, raw_data, doc, clock, seed) ==
    LET months_value == get(raw_data, <<"m","o","n","t","h","s">>)
        rule_name == strip_braces(key)
        bounds == split_once(from(rule_name, 4), <<"-">>)
        start == parse_usize(bounds[1])
        end == parse_usize(bounds[2])
        day_index == parse_usize(from(rule_name, 4))
        numbered == starts_with(key, <<"{","d","a","y","s">>) /\ ends_with(key, <<"}">>)
                    /\ starts_with(rule_name, <<"d","a","y","s">>) /\ Len(rule_name) > 4
        day_map == process_day_range_with_items(raw_data, start, end)
    IN  IF key = <<"{","m","o","n","t","h","s","}">> /\ is_array(months_value)
        THEN insert_all(result,
                        month_results(sort_months(months_value.v), value, raw_data,
                                      doc, clock, seed))
        ELSE IF numbered /\ contains(rule_name, <<"-">>) /\ bounds # <<>>
                /\ start # -1 /\ end # -1
        THEN insert_all(result, day_map.v)
        ELSE IF numbered /\ ~contains(rule_name, <<"-">>) /\ day_index # -1
        THEN insert(result, process_template_variable(key, raw_data, clock),
                    process_numbered_days_with_items(raw_data, day_index))
        ELSE insert(result, process_template_variable(key, raw_data, clock),
                    process_hierarchical_template(value, raw_data, doc, clock, seed))

\* the loop with the store of the month processed last handed on to the
\* entries that follow {months}
RECURSIVE process_entries_leaking(_, _, _, _, _, _)
process_entries_leaking(result, entries, raw_data, doc, clock, seed) ==
    LET day_items_obj == get(raw_data, <<"d","a","y","_","i","t","e","m","s">>)
        scoped(sorted_months) ==
            IF sorted_months # <<>> /\ is_object(day_items_obj)
            THEN insert(raw_data, <<"d","a","y","_","i","t","e","m","s">>,
                        Object(month_day_items(
                                   doc, day_items_obj.v,
                                   split_whitespace_next(
                                       sorted_months[Len(sorted_months)].v)
                                   \o <<" ","2","0","2","5">>)))
            ELSE raw_data
        leaked(key) ==
            IF key = <<"{","m","o","n","t","h","s","}">> /\ is_array(get(raw_data, <<"m","o","n","t","h","s">>))
            THEN scoped(SelectSeq(sort_months(get(raw_data, <<"m","o","n","t","h","s">>).v), is_str))
            ELSE raw_data
    IN  IF entries = <<>> THEN result
        ELSE process_entries_leaking(
                 process_entry(result, Head(entries).k, Head(entries).v,
                               raw_data, doc, clock, seed),
                 Tail(entries), leaked(Head(entries).k), doc, clock, seed)

RECURSIVE process_entries(_, _, _, _, _, _)
process_entries(result, entries, raw_data, doc, clock, seed) ==
    IF entries = <<>> THEN result
    ELSE process_entries(process_entry(result, Head(entries).k, Head(entries).v,
                                       raw_data, doc, clock, seed),
                         Tail(entries), raw_data, doc, clock, seed)

\* a String arm that looks every string up in the store, placeholder or not
process_string_lookup(s, raw_data, clock) ==
    IF ~is_none(get(raw_data, s)) THEN get(raw_data, s) ELSE String(s)

\* a String arm whose named lookup takes the first element of an array and
\* trims the string, as the lookup of an object key does
process_string_first(s, raw_data, clock) ==
    LET rule_name == strip_braces(s)
        day_index == parse_usize(from(rule_name, 4))
        first(x) == IF is_array(x) /\ x.v # <<>> /\ is_str(x.v[1]) THEN String(trim(x.v[1].v))
                    ELSE IF is_str(x) THEN String(trim(x.v))
                    ELSE String(s)
    IN  IF ~is_placeholder(s) THEN String(s)
        ELSE IF rule_name = <<"c","u","r","r","e","n","t","Y","e","a","r">> THEN String(clock.year)
        ELSE IF rule_name = <<"c","u","r","r","e","n","t","M","o","n","t","h">> THEN String(clock.month)
        ELSE IF rule_name = <<"c","u","r","r","e","n","t","D","a","y">> THEN String(clock.day)
        ELSE IF rule_name = <<"c","u","r","r","e","n","t","D","a","t","e">> THEN String(clock.date)
        ELSE IF starts_with(rule_name, <<"d","a","y","s">>) /\ Len(rule_name) > 4
        THEN IF day_index # -1
             THEN process_numbered_days_with_items(raw_data, day_index)
             ELSE String(s)
        ELSE IF ~is_none(get(raw_data, rule_name)) THEN first(get(raw_data, rule_name))
        ELSE String(s)

\* the String arm of process_hierarchical_template
process_string(s, raw_data, clock) ==
    LET rule_name == strip_braces(s)
        day_index == parse_usize(from(rule_name, 4))
    IN  IF ~is_placeholder(s) THEN String(s)
        ELSE IF rule_name = <<"c","u","r","r","e","n","t","Y","e","a","r">> THEN String(clock.year)
        ELSE IF rule_name = <<"c","u","r","r","e","n","t","M","o","n","t","h">> THEN String(clock.month)
        ELSE IF rule_name = <<"c","u","r","r","e","n","t","D","a","y">> THEN String(clock.day)
        ELSE IF rule_name = <<"c","u","r","r","e","n","t","D","a","t","e">> THEN String(clock.date)
        ELSE IF starts_with(rule_name, <<"d","a","y","s">>) /\ Len(rule_name) > 4
        THEN IF day_index # -1
             THEN process_numbered_days_with_items(raw_data, day_index)
             ELSE String(s)
        ELSE IF ~is_none(get(raw_data, rule_name)) THEN get(raw_data, rule_name)
        ELSE String(s)

\* the Array arm of process_hierarchical_template
process_array(arr, raw_data, doc, clock, seed) ==
    LET obj == arr[1].v
        key == obj[1].k
        value == obj[1].v
    IN  IF Len(arr) = 1 /\ is_str(arr[1]) /\ arr[1].v = <<"{","i","t","e","m","s","}">>
        THEN process_days_with_items(raw_data, seed)
        ELSE IF /\ Len(arr) = 1 /\ is_object(arr[1]) /\ Len(obj) = 1
                /\ is_placeholder(key) /\ is_str(value) /\ is_placeholder(value.v)
        THEN process_paired_data(key, value.v, raw_data)
        ELSE Array([i \in 1..Len(arr) |->
                       process_hierarchical_template(arr[i], raw_data, doc, clock, seed)])

\* every path of the function returns Ok; the value is what Ok wraps
process_hierarchical_template(template, raw_data, doc, clock, seed) ==
    IF is_object(template)
    THEN Object(process_entries(<<>>, template.v, raw_data, doc, clock, seed))
    ELSE IF is_array(template)
    THEN process_array(template.v, raw_data, doc, clock, seed)
    ELSE IF is_str(template)
    THEN process_string(template.v, raw_data, clock)
    ELSE template

\* Result<Value>: Ok(value) or Err(message); a panic unwinds out of the call
Ok(x) == [st |-> "Ok", v |-> x]

Err(msg) == [st |-> "Err", v |-> String(msg)]

Panic == [st |-> "Panic", v |-> Null]

generate_structured_output(raw_data, output_sample, doc, clock, seed) ==
    IF Len(output_sample) = 0 THEN Panic
    ELSE Ok(Array(<< process_hierarchical_template(output_sample[1], raw_data, doc,
                                                   clock, seed) >>))

\* --------------------------------------------------------------------
\* The selector translator
\* --------------------------------------------------------------------

\* a regex match at the head of a string: [len |-> its length (0 for no
\* match), rep |-> its replacement]
NoMatch == [len |-> 0, rep |-> <<>>]

\* the replacement both contains() patterns build from the captures
contains_replacement(attribute, value) ==
    IF attribute = <<"c","l","a","s","s">> THEN <<".">> \o replace(value, <<" ">>, <<".">>)
    ELSE <<"[">> \o attribute \o <<"*","=","\"">> \o value \o <<"\"","]">>

\* a match of  open (\w+) middle ([^']+) '\)  at the head of s, open and
\* middle being literal text: [^']+ takes the text up to the next quote
\* and gives back its last character, which must be the space before it
match_contains(s, open, middle) ==
    LET quoted(attribute, upto, closing) ==
            IF Len(upto) >= 2 /\ upto[Len(upto)] = " " /\ starts_with(closing, <<"'",")">>)
            THEN [len |-> Len(open) + Len(attribute) + Len(middle) + Len(upto) + 2,
                  rep |-> contains_replacement(attribute, SubSeq(upto, 1, Len(upto) - 1))]
            ELSE NoMatch
        value(attribute, after, upto) ==
            quoted(attribute, upto, from(after, Len(middle) + Len(upto)))
        named(attribute, after) ==
            IF attribute # <<>> /\ starts_with(after, middle)
            THEN value(attribute, after, take_until(from(after, Len(middle)), {"'"}))
            ELSE NoMatch
        of(attribute) == named(attribute, from(s, Len(open) + Len(attribute)))
    IN  IF starts_with(s, open) THEN of(take_while(from(s, Len(open)), WordChars))
        ELSE NoMatch

\* replace_all of a pattern that begins with the literal text open: the
\* occurrences of open are tried from the left, a match is replaced and the
\* search goes on after it
RECURSIVE replace_contains(_, _, _)
replace_contains(s, open, middle) ==
    LET try(i, m) ==
            IF m.len > 0
            THEN SubSeq(s, 1, i - 1) \o m.rep
                 \o replace_contains(from(s, i - 1 + m.len), open, middle)
            ELSE SubSeq(s, 1, i) \o replace_contains(from(s, i), open, middle)
        at(i) == IF i = 0 THEN s ELSE try(i, match_contains(from(s, i - 1), open, middle))
    IN  at(find(s, open))

\* contains\(concat\(' ', @(\w+), ' '\), ' ([^']+) '\)
replace_contains_concat(s) ==
    replace_contains(s, <<"c","o","n","t","a","i","n","s","(","c","o","n","c","a","t","(","'"," ","'",","," ","@">>, <<","," ","'"," ","'",")",","," ","'"," ">>)

\* contains\(@(\w+), ' ([^']+) '\)
replace_contains_attr(s) == replace_contains(s, <<"c","o","n","t","a","i","n","s","(","@">>, <<","," ","'"," ">>)

\* /@(\w+) replaced by the empty string
RECURSIVE remove_attribute_steps(_)
remove_attribute_steps(s) ==
    LET step(i, name) ==
            IF name # <<>>
            THEN SubSeq(s, 1, i - 1) \o remove_attribute_steps(from(s, i + 1 + Len(name)))
            ELSE SubSeq(s, 1, i) \o remove_attribute_steps(from(s, i))
        at(i) == IF i = 0 THEN s ELSE step(i, take_while(from(s, i + 1), WordChars))
    IN  at(find(s, <<"/","@">>))

\* (\w+)\[\.([^\]]+)\] replaced by $1.$2: the word before a "[.", the
\* text up to the next "]"
RECURSIVE unbracket_classes(_)
unbracket_classes(s) ==
    LET bracket(i, element, class) ==
            IF /\ element # <<>> /\ class # <<>>
               /\ starts_with(from(s, i + 1 + Len(class)), <<"]">>)
            THEN SubSeq(s, 1, i - 1) \o <<".">> \o class
                 \o unbracket_classes(from(s, i + 2 + Len(class)))
            ELSE SubSeq(s, 1, i) \o unbracket_classes(from(s, i))
        at(i) == IF i = 0 THEN s
                 ELSE bracket(i, take_back(SubSeq(s, 1, i - 1), WordChars),
                              take_until(from(s, i + 1), {"]"}))
    IN  at(find(s, <<"[",".">>))

\* while css.contains("  ") { css = css.replace("  ", " ") }
RECURSIVE collapse_spaces(_)
collapse_spaces(s) ==
    IF contains(s, <<" "," ">>) THEN collapse_spaces(replace(s, <<" "," ">>, <<" ">>)) ELSE s

\* the tag[index] pairs rewritten to :nth-child, in the order of the code
numeric_selectors ==
    << <<<<"t","d">>, 1>>, <<<<"t","d">>, 2>> >>
    \o [i \in 1..18 |-> <<<<"t","r">>, i>>]
    \o << <<<<"f","o","n","t">>, 1>>, <<<<"f","o","n","t">>, 2>> >>

\* the four expressions of the dividend configuration that are answered with
\* a fixed selector
xpath_heading ==
    <<"/","/","t","a","b","l","e","[","c","o","n","t","a","i","n","s","(",".",","," ","'","E","x","-","D","i","v","i","d","e","n","d"," ","C","a","l","e","n","d","a","r","'",")","]","/","/","t","h","[","c","o","n","t","a","i","n","s","(","@","s","t","y","l","e",","," ","'","f","o","n","t","-","s","i","z","e",":"," ","2","6","p","x","'",")","]">>

xpath_stock_cell ==
    <<"/","/","t","a","b","l","e","[","c","o","n","t","a","i","n","s","(",".",","," ","'","E","x","-","D","i","v","i","d","e","n","d"," ","C","a","l","e","n","d","a","r","'",")","]","/","/","t","d","[","c","o","n","t","a","i","n","s","(","@","c","l","a","s","s",",","'","c","a","l","t","a","b","l","e","t","d","e","v","t","'",")","]","[",".","/","/","s","p","a","n","[","@","s","t","y","l","e","=","\"","c","o","l","o","r",":"," ","#","4","B","9","8","3","0",";"," ","f","o","n","t","-","s","i","z","e",":"," ","2","2","p","x",";","\"","]","]">>

xpath_day_of_stock ==
    xpath_stock_cell \o <<"/",".",".","/","p","r","e","c","e","d","i","n","g","-","s","i","b","l","i","n","g",":",":","t","r","[","1","]","/","t","d","[","c","o","n","t","a","i","n","s","(","@","c","l","a","s","s",",","'","c","a","l","t","a","b","l","e","t","d","n","u","m","'",")","]">>

xpath_day_rows ==
    <<"/","/","t","a","b","l","e","[","c","o","n","t","a","i","n","s","(",".",","," ","'","E","x","-","D","i","v","i","d","e","n","d"," ","C","a","l","e","n","d","a","r","'",")","]","/","/","t","r","[","t","d","[","@","c","l","a","s","s","=","'","c","a","l","t","a","b","l","e","t","d","n","u","m","'","]","]","/","f","o","l","l","o","w","i","n","g","-","s","i","b","l","i","n","g",":",":","t","r","[","1","]","[","t","d","[","@","c","l","a","s","s","=","'","c","a","l","t","a","b","l","e","t","d","e","v","t","'","]","]">>

\* contains(., 'text'): the css becomes the tag name of its first
\* whitespace-delimited part, when that part has a "["
contains_dot(css) ==
    LET element_name(first_part) ==
            IF first_part # <<>> /\ contains(first_part, <<"[">>)
            THEN take_until(first_part, {"["})
            ELSE css
    IN  IF contains(css, <<"c","o","n","t","a","i","n","s","(",".",","," ">>) THEN element_name(split_whitespace_next(css))
        ELSE css

\* the handling of contains(): the two patterns, then contains(., 'text')
convert_contains(css) ==
    IF contains(css, <<"c","o","n","t","a","i","n","s","(">>)
    THEN contains_dot(replace_contains_attr(replace_contains_concat(css)))
    ELSE css

\* if css.starts_with("//") { css = css[2..] }
strip_leading(css) == IF starts_with(css, <<"/","/">>) THEN from(css, 2) ELSE css

\* the assignments to css of the general conversion, in the order of the
\* code: step k gives the next css from the css before it
conversion_step(k, css) ==
    LET numeric(tag, n) ==
            replace(css, tag \o <<"[">> \o n \o <<"]">>, tag \o <<":","n","t","h","-","c","h","i","l","d","(">> \o n \o <<")">>)
        pair(p) == numeric(p[1], to_string(p[2]))
    IN  CASE k = 1 -> convert_contains(css)
          [] k = 2 -> strip_leading(css)
          [] k = 3 -> replace(css, <<".","/","/">>, <<" ">>)
          [] k = 4 -> replace(css, <<"/","/">>, <<" ">>)
          [] k = 5 -> remove_attribute_steps(css)
          [] k = 6 -> replace(css, <<"/">>, <<" ">>)
          [] k = 7 -> collapse_spaces(trim(css))
          [] k = 8 -> trim(replace(css, <<"@">>, <<>>))
          [] k = 9 -> replace(css, <<" ","a","n","d"," ">>, <<"]","[">>)
          [] k = 10 -> unbracket_classes(css)
          [] k = 11 -> replace(css, <<"'">>, <<"\"">>)
          [] k = 12 -> replace(css, <<"/","t","e","x","t","(",")">>, <<>>)
          [] k = 13 -> replace(css, <<" ","t","e","x","t","(",")">>, <<>>)
          [] OTHER -> pair(numeric_selectors[k - 13])

\* the order of the steps: 1..11, the numeric selectors, then 12 and 13
step_order ==
    [i \in 1..11 |-> i] \o [i \in 1..Len(numeric_selectors) |-> 13 + i] \o <<12, 13>>

\* the css after the steps from the i-th on; css is computed before the
\* step that reads it
RECURSIVE convert_from(_, _)
convert_from(css, i) ==
    IF evaluated(css) /\ i <= Len(step_order)
    THEN convert_from(conversion_step(step_order[i], css), i + 1)
    ELSE css

\* the general conversion of a trimmed expression
general_conversion(xpath) == convert_from(xpath, 1)

\* every path returns Ok: the result is the selector string Ok wraps
xpath_to_css_selector(expression) ==
    LET convert(xpath) ==
            IF contains(xpath, xpath_heading)
            THEN Ok(<<"t","a","b","l","e"," ","t","h","[","s","t","y","l","e","*","=","\"","f","o","n","t","-","s","i","z","e",":"," ","2","6","p","x","\"","]">>)
            ELSE IF contains(xpath, xpath_day_of_stock) THEN Ok(<<"t","d",".","c","a","l","t","a","b","l","e","t","d","n","u","m">>)
            ELSE IF contains(xpath, xpath_day_rows) THEN Ok(<<"t","r">>)
            ELSE IF contains(xpath, xpath_stock_cell)
            THEN IF ends_with(xpath, <<"/","t","e","x","t","(",")">>)
                 THEN Ok(<<"t","d",".","c","a","l","t","a","b","l","e","t","d","e","v","t"," ","s","p","a","n","[","s","t","y","l","e","*","=","\"","c","o","l","o","r",":"," ","#","0","0","0","0","0","0","\"","]"," ","a">>)
                 ELSE Ok(<<"t","d",".","c","a","l","t","a","b","l","e","t","d","e","v","t"," ","s","p","a","n","[","s","t","y","l","e","*","=","\"","c","o","l","o","r",":"," ","#","4","B","9","8","3","0","\"","]","[","s","t","y","l","e","*","=","\"","f","o","n","t","-","s","i","z","e",":"," ","2","2","p","x","\"","]">>)
            ELSE Ok(general_conversion(xpath))
    IN  convert(trim(expression))

\* --------------------------------------------------------------------
\* The rule evaluator
\* --------------------------------------------------------------------

\* XPathRule. An Option is the empty sequence for None and a one-element
\* sequence for Some; attribute is None or String(name). iterate_over is
\* never read by the program and is left out.
Rule(name, xpath, extract_type, attribute) ==
    [name |-> name, xpath |-> xpath, extract_type |-> extract_type,
     attribute |-> attribute, children |-> <<>>, fields |-> <<>>,
     for_each_item |-> <<>>, map_item |-> <<>>]

\* if results.len() == 1 { the element } else { Value::Array(results) }
collapse_keep_array(results) == Array(results)

collapse(results) == IF Len(results) = 1 THEN results[1] ELSE Array(results)

\* the values a Text, Attribute or Html rule pushes for the elements es
extract_values(doc, es, rule) ==
    LET has_attr(e) == ~is_none(rule.attribute) /\ ~is_none(attr(doc, e, rule.attribute.v))
        strings(texts) == [i \in 1..Len(texts) |-> String(texts[i])]
        attrs(with_attr) ==
            [i \in 1..Len(with_attr) |-> attr(doc, with_attr[i], rule.attribute.v)]
    IN  CASE rule.extract_type = "text" -> strings(trimmed_texts(doc, es))
          [] rule.extract_type = "attribute" -> attrs(SelectSeq(es, has_attr))
          [] rule.extract_type = "html" -> [i \in 1..Len(es) |-> String(html(doc, es[i]))]
          [] OTHER -> <<>>

\* the css of a rule's expression and its parse
rule_selector(rule) == Selector_parse(xpath_to_css_selector(rule.xpath).v)

\* the value of a Text, Attribute, Html or Count rule for the elements es
rule_value(doc, es, rule) ==
    IF rule.extract_type = "count" THEN Number(Len(es))
    ELSE collapse(extract_values(doc, es, rule))

\* child_value with the child selector run against the whole document
child_value_of_document(doc, e, child_rule, child_selector) ==
    IF child_rule.extract_type = "object" THEN Null
    ELSE rule_value(doc, select(doc, child_selector), child_rule)

\* the value of one child rule in the context of element e, its selector
\* being child_selector
child_value(doc, e, child_rule, child_selector) ==
    IF child_rule.extract_type = "object" THEN Null
    ELSE rule_value(doc, select_in(doc, e, child_selector), child_rule)

\* the object of one matching element: Ok(Object), or the Err of the first
\* child rule whose selector does not parse
RECURSIVE object_result(_, _, _, _)
object_result(doc, e, children_rules, acc) ==
    LET child(child_rule, child_selector) ==
            IF ~child_selector.ok THEN Err(<<"F","a","i","l","e","d"," ","t","o"," ","p","a","r","s","e"," ","c","h","i","l","d"," ","s","e","l","e","c","t","o","r">>)
            ELSE object_result(doc, e, Tail(children_rules),
                               insert(acc, child_rule.name,
                                      child_value(doc, e, child_rule, child_selector.sel)))
    IN  IF children_rules = <<>> THEN Ok(Object(acc))
        ELSE child(Head(children_rules), rule_selector(Head(children_rules)))

RECURSIVE object_results(_, _, _, _)
object_results(doc, es, children_rules, acc) ==
    LET next(r) == IF r.st = "Err" THEN r
                   ELSE object_results(doc, Tail(es), children_rules, Append(acc, r.v))
    IN  IF es = <<>> THEN Ok(collapse(acc))
        ELSE next(object_result(doc, Head(es), children_rules, <<>>))

\* mapped_results: one array of items per day string
mapped_results(doc, items) ==
    LET arrays(days) == [i \in 1..Len(days) |-> Array(find_items_for_day(doc, days[i].v))]
    IN  arrays(SelectSeq(items, is_str))

\* for_each with a scalar result of the for-each-item taken as no items
for_each_array_only(doc, for_each_item, for_each_result) ==
    IF for_each_result.st = "Err" THEN for_each_result
    ELSE IF for_each_item.map_item # <<>>
    THEN Ok(Array(mapped_results(doc, IF is_array(for_each_result.v)
                                      THEN for_each_result.v.v
                                      ELSE <<>>)))
    ELSE for_each_result

\* a rule that has a for-each-item, the result of that rule being known
for_each(doc, for_each_item, for_each_result) ==
    IF for_each_result.st = "Err" THEN for_each_result
    ELSE IF for_each_item.map_item # <<>>
    THEN Ok(Array(mapped_results(doc, IF is_array(for_each_result.v)
                                      THEN for_each_result.v.v
                                      ELSE << for_each_result.v >>)))
    ELSE for_each_result

\* the messages end with the selector library's description of the error,
\* which the model leaves out
RECURSIVE process_rule(_, _)
process_rule(doc, rule) ==
    LET object(children_rules, selector) ==
            IF children_rules = <<>>
            THEN Err(<<"O","b","j","e","c","t"," ","e","x","t","r","a","c","t"," ","t","y","p","e"," ","r","e","q","u","i","r","e","s"," ","'","c","h","i","l","d","r","e","n","'"," ","o","r"," ","'","f","i","e","l","d","s","'">>)
            ELSE IF ~selector.ok THEN Err(<<"F","a","i","l","e","d"," ","t","o"," ","p","a","r","s","e"," ","s","e","l","e","c","t","o","r">>)
            ELSE object_results(doc, select(doc, selector.sel), children_rules[1], <<>>)
        plain(selector) ==
            IF ~selector.ok THEN Err(<<"F","a","i","l","e","d"," ","t","o"," ","p","a","r","s","e"," ","s","e","l","e","c","t","o","r">>)
            ELSE Ok(rule_value(doc, select(doc, selector.sel), rule))
        selected(selector) ==
            IF rule.extract_type = "object"
            THEN object(IF rule.children # <<>> THEN rule.children ELSE rule.fields, selector)
            ELSE plain(selector)
    IN  IF rule.for_each_item # <<>>
        THEN for_each(doc, rule.for_each_item[1], process_rule(doc, rule.for_each_item[1]))
        ELSE selected(rule_selector(rule))

\* day_items_map: day string -> its items, for the string elements of days_array
RECURSIVE day_items_map(_, _, _)
day_items_map(doc, days_array, acc) ==
    LET day(day_value) ==
            IF is_str(day_value)
            THEN insert(acc, day_value.v, Array(find_items_for_day(doc, day_value.v)))
            ELSE acc
    IN  IF days_array = <<>> THEN acc
        ELSE day_items_map(doc, Tail(days_array), day(Head(days_array)))

\* the handling of a rule named "months" with a for-each-item, after its
\* process_rule returned Ok: the raw data store, or the error that `?` or
\* `return Err` hands to the caller of process_html
months_step(doc, rule, raw_data) ==
    LET months_result(texts) == collapse([i \in 1..Len(texts) |-> String(texts[i])])
        days(for_each_item, days_result, store) ==
            IF for_each_item.map_item = <<>> THEN Ok(store)
            ELSE IF ~is_array(days_result.v) THEN Err(<<"D","a","y","s"," ","r","e","s","u","l","t"," ","i","s"," ","n","o","t"," ","a","n"," ","a","r","r","a","y">>)
            ELSE Ok(insert(store, <<"d","a","y","_","i","t","e","m","s">>,
                           Object(day_items_map(doc, days_result.v.v, <<>>))))
        with_days(for_each_item, days_result, with_months) ==
            IF days_result.st = "Err" THEN days_result
            ELSE days(for_each_item, days_result,
                      insert(with_months, <<"d","a","y","s">>, days_result.v))
        months(selector) ==
            IF ~selector.ok THEN Err(<<"I","n","v","a","l","i","d"," ","C","S","S"," ","s","e","l","e","c","t","o","r">>)
            ELSE with_days(rule.for_each_item[1], process_rule(doc, rule.for_each_item[1]),
                           insert(raw_data, <<"m","o","n","t","h","s">>,
                                 months_result(trimmed_texts(doc, select(doc, selector.sel)))))
    IN  months(rule_selector(rule))

\* push_error with the new message put before the earlier ones
push_error_first(errors, name, error) ==
    << <<"E","r","r","o","r"," ","p","r","o","c","e","s","s","i","n","g"," ","r","u","l","e"," ","'">> \o name \o <<"'",":"," ">> \o error >> \o errors

\* errors.push(format!("Error processing rule '{}': {}", rule.name, e))
push_error(errors, name, error) ==
    Append(errors, <<"E","r","r","o","r"," ","p","r","o","c","e","s","s","i","n","g"," ","r","u","l","e"," ","'">> \o name \o <<"'",":"," ">> \o error)

\* one iteration of the loop over config.rules: the next raw data store
\* and errors, or abort = TRUE with the error process_html returns
rule_step(doc, rule, raw_data, errors) ==
    LET months(m) ==
            IF m.st = "Err"
            THEN [abort |-> TRUE, raw_data |-> raw_data, errors |-> errors, error |-> m.v]
            ELSE [abort |-> FALSE, raw_data |-> m.v, errors |-> errors, error |-> Null]
        step(r) ==
            IF r.st = "Err"
            THEN [abort |-> FALSE, raw_data |-> insert(raw_data, rule.name, Null),
                  errors |-> push_error(errors, rule.name, r.v.v),
                  error |-> Null]
            ELSE IF rule.name = <<"m","o","n","t","h","s">> /\ rule.for_each_item # <<>>
            THEN months(months_step(doc, rule, raw_data))
            ELSE [abort |-> FALSE, raw_data |-> insert(raw_data, rule.name, r.v),
                  errors |-> errors, error |-> Null]
    IN  step(process_rule(doc, rule))

\* the whole loop from a store and an errors list
RECURSIVE process_rules(_, _, _, _)
process_rules(doc, rules, raw_data, errors) ==
    LET next(s) == IF s.abort THEN s
                   ELSE process_rules(doc, Tail(rules), s.raw_data, s.errors)
    IN  IF rules = <<>>
        THEN [abort |-> FALSE, raw_data |-> raw_data, errors |-> errors, error |-> Null]
        ELSE next(rule_step(doc, Head(rules), raw_data, errors))

\* ExtractionResult
ExtractionResult(config_name, data, errors) ==
    [config_name |-> config_name, data |-> data, errors |-> errors]

\* the end of process_html: the structured data, then the result
structured_data(config, raw_data, doc, clock, seed) ==
    IF config.output_sample # <<>>
    THEN generate_structured_output(raw_data, config.output_sample[1], doc, clock, seed)
    ELSE Ok(Object(raw_data))

\* Ok(ExtractionResult), or what generate_structured_output's failure is
extraction_result(config, structured, errors) ==
    IF structured.st = "Ok" THEN Ok(ExtractionResult(config.name, structured.v, errors))
    ELSE structured
\* --------------------------------------------------------------------
\* Documents
\* --------------------------------------------------------------------
\* A document is written as a tree and flattened to the node sequence that
\* Html::parse_document yields for its markup.

T(tag, attrs, kids) == [tag |-> tag, attrs |-> attrs, kids |-> kids, text |-> <<>>]

Txt(s) == [tag |-> <<>>, attrs |-> <<>>, kids |-> <<>>, text |-> s]

RECURSIVE flatten(_, _, _)
RECURSIVE flatten_kids(_, _, _)
\* the nodes of tree, its root at index base + 1 below parent
flatten(tree, parent, base) ==
    << [tag |-> tree.tag, parent |-> parent, attrs |-> tree.attrs, text |-> tree.text] >>
    \o flatten_kids(tree.kids, base + 1, base + 1)

flatten_kids(kids, parent, base) ==
    IF kids = <<>> THEN <<>>
    ELSE LET head == flatten(Head(kids), parent, base)
         IN  head \o flatten_kids(Tail(kids), parent, base + Len(head))

Page(kids) == flatten(T(<<"h","t","m","l">>, <<>>, << T(<<"b","o","d","y">>, <<>>, kids) >>), 0, 0)

Class(c) == << [k |-> <<"c","l","a","s","s">>, v |-> String(c)] >>

DayCell(d) == T(<<"t","d">>, Class(<<"c","a","l","t","a","b","l","e","t","d","n","u","m">>), << Txt(d) >>)

ItemCell(links) ==
    T(<<"t","d">>, Class(<<"c","a","l","t","a","b","l","e","t","d","e","v","t">>), [i \in 1..Len(links) |-> T(<<"a">>, <<>>, << Txt(links[i]) >>)])

\* a calendar table: a heading row, a day-number row, an items row
CalendarTable(heading, days, cells) ==
    T(<<"t","a","b","l","e">>, <<>>, <<
      T(<<"t","b","o","d","y">>, <<>>, <<
        T(<<"t","r">>, <<>>, << T(<<"t","h">>, << [k |-> <<"s","t","y","l","e">>, v |-> String(<<"f","o","n","t","-","s","i","z","e",":"," ","2","6","p","x">>)] >>,
                            << Txt(heading) >>) >>),
        T(<<"t","r">>, <<>>, [i \in 1..Len(days) |-> DayCell(days[i])]),
        T(<<"t","r">>, <<>>, [i \in 1..Len(cells) |-> ItemCell(cells[i])]) >>) >>)

\* one month
PageMarch ==
    Page(<< CalendarTable(<<"M","a","r","c","h"," ","2","0","2","5"," ","E","x","-","D","i","v","i","d","e","n","d"," ","C","a","l","e","n","d","a","r">>, << <<"1">>, <<"2">> >>,
                          << << <<"A","A","A">> >>, << <<"B","B","B">>, <<"C","C","C">> >> >>) >>)

\* two months, the later one first in the document
PageTwoMonths ==
    Page(<< CalendarTable(<<"M","a","r","c","h"," ","2","0","2","5"," ","E","x","-","D","i","v","i","d","e","n","d"," ","C","a","l","e","n","d","a","r">>, << <<"1">>, <<"2">> >>,
                          << << <<"A","A","A">> >>, << <<"B","B","B">> >> >>),
            CalendarTable(<<"J","a","n","u","a","r","y"," ","2","0","2","5"," ","E","x","-","D","i","v","i","d","e","n","d"," ","C","a","l","e","n","d","a","r">>, << <<"1">>, <<"2">> >>,
                          << << <<"J","J","J">> >>, <<>> >>) >>)


\* two months of different years
PageTwoYears ==
    Page(<< CalendarTable(<<"F","e","b","r","u","a","r","y"," ","2","0","2","4"," ","E","x","-","D","i","v","i","d","e","n","d"," ","C","a","l","e","n","d","a","r">>, << <<"1">>, <<"2">> >>,
                          << << <<"F","F","F">> >>, << <<"G","G","G">> >> >>),
            CalendarTable(<<"M","a","r","c","h"," ","2","0","2","5"," ","E","x","-","D","i","v","i","d","e","n","d"," ","C","a","l","e","n","d","a","r">>, << <<"1">>, <<"2">> >>,
                          << << <<"A","A","A">> >>, << <<"B","B","B">> >> >>) >>)

\* one month with a single day
PageOneDay ==
    Page(<< CalendarTable(<<"M","a","r","c","h"," ","2","0","2","5"," ","E","x","-","D","i","v","i","d","e","n","d"," ","C","a","l","e","n","d","a","r">>, << <<"1">> >>,
                          << << <<"A","A","A">> >> >>) >>)

\* no calendar: a box of two paragraphs, a link and an empty span, then a
\* lone paragraph
PageLinks ==
    Page(<< T(<<"d","i","v">>, Class(<<"b","o","x"," ","w","i","d","e">>), <<
               T(<<"p">>, <<>>, << Txt(<<"o","n","e">>) >>),
               T(<<"p">>, <<>>, << Txt(<<" ","t","w","o"," ">>) >>),
               T(<<"a">>, << [k |-> <<"h","r","e","f">>, v |-> String(<<"/","x">>)] >>, << Txt(<<"l","i","n","k">>) >>),
               T(<<"s","p","a","n">>, <<>>, << Txt(<<" ">>) >>) >>),
            T(<<"d","i","v">>, <<>>, << T(<<"p">>, <<>>, << Txt(<<"s","o","l","o">>) >>) >>) >>)

\* calendars given by their rows: a row of day numbers or a row of item
\* cells (the links of each cell)
DayRow(days) == [kind |-> "days", cells |-> days]

ItemRow(cells) == [kind |-> "items", cells |-> cells]

Row(row) ==
    IF row.kind = "days"
    THEN T(<<"t","r">>, <<>>, [i \in 1..Len(row.cells) |-> DayCell(row.cells[i])])
    ELSE T(<<"t","r">>, <<>>, [i \in 1..Len(row.cells) |-> ItemCell(row.cells[i])])

\* the table of a calendar: the heading row, then its rows
Calendar(c) ==
    T(<<"t","a","b","l","e">>, <<>>, <<
      T(<<"t","b","o","d","y">>, <<>>,
        << T(<<"t","r">>, <<>>, << T(<<"t","h">>, <<>>, << Txt(c.heading) >>) >>) >>
        \o [i \in 1..Len(c.rows) |-> Row(c.rows[i])]) >>)

\* the calendars of the documents the resolver is asked about
Calendars(name) ==
    CASE name = "Blank" ->
            \* a blank day cell before the days 1 and 2
            << [heading |-> <<"M","a","r","c","h"," ","2","0","2","5"," ","E","x","-","D","i","v","i","d","e","n","d"," ","C","a","l","e","n","d","a","r">>,
                rows |-> << DayRow(<< <<" ">>, <<"1">>, <<"2">> >>),
                            ItemRow(<< <<>>, << <<"A","A","A">> >>, << <<"B","B","B">>, <<"C","C","C">> >> >>) >>] >>
      [] name = "Weeks" ->
            \* two weeks, each a row of days over a row of items
            << [heading |-> <<"M","a","r","c","h"," ","2","0","2","5"," ","E","x","-","D","i","v","i","d","e","n","d"," ","C","a","l","e","n","d","a","r">>,
                rows |-> << DayRow(<< <<"1">>, <<"2">> >>),
                            ItemRow(<< << <<"A","A","A">> >>, << <<"B","B","B">> >> >>),
                            DayRow(<< <<"3">>, <<"9">> >>),
                            ItemRow(<< << <<"C","C","C">>, <<"D","D","D">> >>, <<>> >>) >>] >>
      [] name = "Tail" ->
            \* rows of days without rows of items
            << [heading |-> <<"M","a","r","c","h"," ","2","0","2","5"," ","E","x","-","D","i","v","i","d","e","n","d"," ","C","a","l","e","n","d","a","r">>,
                rows |-> << DayRow(<< <<"1">>, <<"2">> >>), DayRow(<< <<"3">>, <<"9">> >>) >>] >>
      [] name = "Both" ->
            \* two months with the day 1 in both
            << [heading |-> <<"M","a","r","c","h"," ","2","0","2","5"," ","E","x","-","D","i","v","i","d","e","n","d"," ","C","a","l","e","n","d","a","r">>,
                rows |-> << DayRow(<< <<"1">>, <<"2">> >>),
                            ItemRow(<< << <<"A","A","A">> >>, << <<"B","B","B">> >> >>) >>],
               [heading |-> <<"J","a","n","u","a","r","y"," ","2","0","2","5"," ","E","x","-","D","i","v","i","d","e","n","d"," ","C","a","l","e","n","d","a","r">>,
                rows |-> << DayRow(<< <<"1">>, <<"3">> >>),
                            ItemRow(<< << <<"J","J","J">> >>, << <<"K","K","K">> >> >>) >>] >>
      [] name = "Bare" ->
            \* a table that is no calendar, then a calendar
            << [heading |-> <<"M","a","r","c","h"," ","2","0","2","5">>,
                rows |-> << DayRow(<< <<"1">>, <<"2">> >>),
                            ItemRow(<< << <<"X","X","X">> >>, << <<"Y","Y","Y">> >> >>) >>],
               [heading |-> <<"M","a","r","c","h"," ","2","0","2","5"," ","E","x","-","D","i","v","i","d","e","n","d"," ","C","a","l","e","n","d","a","r">>,
                rows |-> << DayRow(<< <<"2">> >>), ItemRow(<< << <<"B","B","B">> >> >>) >>] >>

CalendarPages == {"Blank", "Weeks", "Tail", "Both", "Bare"}

\* the document of some calendars
CalendarPage(calendars) == Page([i \in 1..Len(calendars) |-> Calendar(calendars[i])])

\* the documents by name
Document(name) ==
    CASE name = "March" -> PageMarch
      [] name = "TwoMonths" -> PageTwoMonths
      [] name = "OneDay" -> PageOneDay
      [] name = "TwoYears" -> PageTwoYears
      [] name = "Links" -> PageLinks
      [] OTHER -> CalendarPage(Calendars(name))
\* --------------------------------------------------------------------
\* Inputs of the projector: bounded sets of templates and raw data stores
\* --------------------------------------------------------------------

\* the longest array of a paired rule
MaxLen == 2

\* the longest days array
MaxDays == 2

\* the longest items array
MaxItems == 3

\* the largest day number of a {daysN-M} key
MaxDay == 3

\* the longest months array
MaxMonths == 2

\* the sequences over the set S of length at most n
RECURSIVE SeqsUpTo(_, _)
SeqsUpTo(S, n) ==
    IF n = 0 THEN {<<>>}
    ELSE LET shorter == SeqsUpTo(S, n - 1)
         IN  shorter \cup {Append(s, x) : s \in {t \in shorter : Len(t) = n - 1}, x \in S}

Entry(key, value) == [k |-> key, v |-> value]

\* what the rules store: Text results are trimmed and non-empty, Attribute
\* results are the attribute as written, an Object rule gives objects, Count a
\* number
KeyElems == {String(<<"a">>), String(<<" ","b"," ">>), Number(1)}

ValueElems == {String(<<" ","v">>), Object(<< Entry(<<"n">>, String(<<"x">>)) >>)}

PairStores ==
    {<< Entry(<<"A">>, Array(a)), Entry(<<"B">>, Array(b)) >> :
        a \in SeqsUpTo(KeyElems, MaxLen), b \in SeqsUpTo(ValueElems, MaxLen)}

DaysOf(n) == [i \in 1..n |-> String(to_string(i))]

ItemsOf(n) == [i \in 1..n |-> String(<<"i">> \o to_string(i))]

DaysChoices ==
    {Array(DaysOf(n)) : n \in 0..MaxDays}
    \cup {Array(<< String(<<" ","1">>), String(<<"1"," ">>) >>), Array(<< Number(1), String(<<"2">>) >>), None}

ItemsChoices == {Array(ItemsOf(n)) : n \in 0..MaxItems} \cup {None}

\* a day_items mapping as process_html stores it: day label -> array of items
DayItems ==
    Object(<< Entry(<<"1">>, Array(<< String(<<"A","A","A">>) >>)),
              Entry(<<"3">>, Array(<< String(<<"D","D","D">>), String(<<"E","E","E">>) >>)) >>)

DayItemsChoices == {DayItems, None, String(<<"n","o","n","e">>)}

\* the store with the given entries, an entry whose value is None left out
RECURSIVE StoreOf(_)
StoreOf(entries) ==
    IF entries = <<>> THEN <<>>
    ELSE (IF is_none(Head(entries).v) THEN <<>> ELSE << Head(entries) >>)
         \o StoreOf(Tail(entries))

DayStores ==
    {StoreOf(<< Entry(<<"d","a","y","s">>, d), Entry(<<"i","t","e","m","s">>, i), Entry(<<"d","a","y","_","i","t","e","m","s">>, m) >>) :
        d \in DaysChoices, i \in ItemsChoices, m \in DayItemsChoices}

\* the month headings a Text rule extracts; the last names no month
MonthLabels ==
    {<<"M","a","r","c","h"," ","2","0","2","5"," ","E","x","-","D","i","v","i","d","e","n","d"," ","C","a","l","e","n","d","a","r">>, <<"J","a","n","u","a","r","y"," ","2","0","2","5"," ","E","x","-","D","i","v","i","d","e","n","d"," ","C","a","l","e","n","d","a","r">>,
     <<"F","e","b","r","u","a","r","y"," ","2","0","2","4">>, <<"S","m","a","r","c","h"," ","2","0","2","5">>}

Distinct(s) == \A i, j \in 1..Len(s) : i # j => s[i] # s[j]

MonthsChoices ==
    {Array([i \in 1..Len(s) |-> String(s[i])]) :
        s \in {t \in SeqsUpTo(MonthLabels, MaxMonths) : Distinct(t)}}
    \cup {String(<<"M","a","r","c","h"," ","2","0","2","5"," ","E","x","-","D","i","v","i","d","e","n","d"," ","C","a","l","e","n","d","a","r">>)}

MonthStores ==
    {StoreOf(<< Entry(<<"m","o","n","t","h","s">>, m), Entry(<<"d","a","y","s">>, Array(DaysOf(2))),
                Entry(<<"d","a","y","_","i","t","e","m","s">>, d) >>) :
        m \in MonthsChoices,
        d \in {None, Object(<< Entry(<<"1">>, Array(<< String(<<"A","A","A">>), String(<<"J","J","J">>) >>)),
                               Entry(<<"2">>, Array(<< String(<<"B","B","B">>) >>)) >>)}}

\* rule names that are not reserved; two of them begin with "days"
NamedKeys == {<<"t","i","t","l","e">>, <<"d","a","y","s","O","f","W","e","e","k">>, <<"d","a","y","s","-","x">>, <<"d","a","y">>}

\* what a rule of such a name stores: Text and Attribute results, a Count
NamedValues ==
    {String(<<"v">>), String(<<" ","p","a","d","d","e","d"," ">>), Number(2), Array(<<>>),
     Array(<< String(<<" ","a"," ">>), String(<<"b">>) >>), Array(<< Number(1), String(<<"b">>) >>)}

NamedStores ==
    {<< Entry(key, value), Entry(<<"o","t","h","e","r">>, String(<<"o">>)) >> :
        key \in NamedKeys, value \in NamedValues}

Stores == PairStores \cup DayStores \cup MonthStores \cup NamedStores

\* templates without any placeholder
LiteralLeaves ==
    {Null, Number(7), Bool(TRUE), String(<<"x">>), String(<<"{","x">>), String(<<"x","}">>),
     String(<<"d","a","y","s","0">>), String(<<"d","a","y","s">>), String(<<>>)}

LiteralTemplates ==
    LiteralLeaves
    \cup {Object(<< Entry(key, String(<<"x">>)) >>) : key \in {<<"k">>, <<"{","d","a","y","s">>, <<"m","o","n","t","h","s","}">>, <<>>}}
    \cup {Array(<< String(<<"i","t","e","m","s">>), Null >>),
          Array(<< Object(<< Entry(<<"A">>, String(<<"B">>)) >>) >>),
          Array(<<>>), Object(<<>>),
          Object(<< Entry(<<"b">>, Array(<< String(<<"d","a","y","s","1","-","2">>) >>)),
                    Entry(<<"a">>, Object(<< Entry(<<"d","a","y","s","1">>, Number(7)) >>)) >>)}

PairTemplates ==
    {Array(<< Object(<< Entry(<<"{","A","}">>, String(<<"{","B","}">>)) >>) >>),
     Array(<< Object(<< Entry(<<"{","B","}">>, String(<<"{","A","}">>)) >>) >>)}

\* {"{daysN-M}": sub}
RangeTemplate(n, m, sub) ==
    Object(<< Entry(<<"{","d","a","y","s">> \o to_string(n) \o <<"-">> \o to_string(m) \o <<"}">>, sub) >>)

RangeTemplates == {RangeTemplate(n, m, String(<<"x">>)) : n \in 0..MaxDay, m \in 0..MaxDay}

\* "{daysN}"
DayIndexTemplate(n) == String(<<"{","d","a","y","s">> \o to_string(n) \o <<"}">>)

DayTemplates ==
    RangeTemplates
    \cup {DayIndexTemplate(n) : n \in 0..MaxDays}
    \cup {Array(<< String(<<"{","i","t","e","m","s","}">>) >>),
          Object(<< Entry(<<"{","d","a","y","s","0","}">>, String(<<"x">>)) >>),
          Object(<< Entry(<<"{","d","a","y","s","1","}">>, String(<<"x">>)) >>),
          String(<<"{","d","a","y","s","1","}">>), String(<<"{","d","a","y","s","}">>), String(<<"{","i","t","e","m","s","}">>),
          Object(<< Entry(<<"{","d","a","y","s","}">>, String(<<"{","d","a","y","s","1","-","2","}">>)) >>)}

MonthTemplates ==
    {Object(<< Entry(<<"{","m","o","n","t","h","s","}">>, sub) >>) :
        sub \in {String(<<"x">>), RangeTemplate(1, 2, String(<<"x">>)), String(<<"{","m","o","n","t","h","s","}">>)}}
    \cup {Object(<< Entry(<<"{","m","o","n","t","h","s","}">>, String(<<"x">>)), Entry(<<"{","d","a","y","s","1","-","2","}">>, String(<<"x">>)) >>)}
    \cup {Object(<< Entry(<<"y","e","a","r">>, String(<<"{","c","u","r","r","e","n","t","Y","e","a","r","}">>)),
                    Entry(<<"{","m","o","n","t","h","s","}">>, RangeTemplate(1, 2, String(<<"x">>))) >>)}

\* a placeholder as a string value and as an object key
NamedTemplates ==
    UNION {{String(<<"{">> \o key \o <<"}">>),
            Object(<< Entry(<<"{">> \o key \o <<"}">>, String(<<"{","o","t","h","e","r","}">>)) >>)} :
           key \in NamedKeys \cup {<<"m","i","s","s","i","n","g">>}}

ClockTemplates ==
    {String(<<"{","c","u","r","r","e","n","t","Y","e","a","r","}">>), String(<<"{","c","u","r","r","e","n","t","M","o","n","t","h","}">>),
     Object(<< Entry(<<"{","c","u","r","r","e","n","t","D","a","t","e","}">>, String(<<"{","c","u","r","r","e","n","t","D","a","y","}">>)) >>)}

Clock2025 == [year |-> <<"2","0","2","5">>, month |-> <<"1","0">>, day |-> <<"3","1">>, date |-> <<"2","0","2","5","-","1","0","-","3","1">>]

Clock2026 == [year |-> <<"2","0","2","6">>, month |-> <<"1">>, day |-> <<"2">>, date |-> <<"2","0","2","6","-","0","1","-","0","2">>]

Clocks == {Clock2025, Clock2026}

Templates ==
    LiteralTemplates \cup PairTemplates \cup DayTemplates \cup MonthTemplates
    \cup NamedTemplates
    \cup ClockTemplates

Pages == {"March", "TwoMonths", "TwoYears"}

\* the projector's inputs: each family of templates with the stores and
\* documents it reads, and the literal templates with every store
Scenarios ==
    {<<t, s, "March", Clock2025>> : t \in LiteralTemplates, s \in Stores}
    \cup {<<t, s, "March", Clock2025>> : t \in PairTemplates, s \in PairStores}
    \cup {<<t, s, "March", w>> : t \in ClockTemplates, s \in DayStores, w \in Clocks}
    \cup {<<t, s, "March", Clock2025>> : t \in DayTemplates, s \in DayStores}
    \cup {<<t, s, "March", Clock2025>> : t \in NamedTemplates, s \in NamedStores}
    \cup {<<t, s, p, Clock2025>> : t \in MonthTemplates, s \in MonthStores, p \in Pages}

\* the iteration orders of a HashMap of up to MaxDays keys
Seeds == {f \in [1..MaxDays -> 1..MaxDays] : \A i, j \in 1..MaxDays : i # j => f[i] # f[j]}


\* --------------------------------------------------------------------
\* Inputs of the resolver
\* --------------------------------------------------------------------
DayLabelsAsked == {<<"1">>, <<"2">>, <<"3">>, <<"9">>}

MonthsAsked == {None, String(<<"M","a","r","c","h"," ","2","0","2","5">>), String(<<"J","a","n","u","a","r","y"," ","2","0","2","5">>), String(<<"M","a","y"," ","2","0","2","5">>)}

\* --------------------------------------------------------------------
\* Inputs of the rule evaluator: bounded sets of rules and configurations
\* --------------------------------------------------------------------

\* the longest list of plain rules
MaxRules == 2

\* rules read against the document "Links"
PlainRules ==
    {Rule(<<"t","i","t","l","e">>, <<"/","/","p">>, "text", None),
     Rule(<<"l","i","n","k">>, <<"/","/","a","/","t","e","x","t","(",")">>, "text", None),
     Rule(<<"b","l","a","n","k">>, <<"/","/","s","p","a","n">>, "text", None),
     Rule(<<"h","e","a","d","i","n","g">>, <<"/","/","h","1">>, "text", None),
     Rule(<<"t","a","r","g","e","t">>, <<"/","/","a","/","@","h","r","e","f">>, "attribute", String(<<"h","r","e","f">>)),
     Rule(<<"a","n","c","h","o","r">>, <<"/","/","p">>, "attribute", String(<<"h","r","e","f">>)),
     Rule(<<"b","o","x","e","s">>, <<"/","/","d","i","v">>, "attribute", None),
     Rule(<<"m","a","r","k","u","p">>, <<"/","/","a">>, "html", None),
     Rule(<<"b","a","n","n","e","r">>, <<"/","/","h","1">>, "html", None),
     Rule(<<"p","a","r","a","s">>, <<"/","/","d","i","v","[","c","o","n","t","a","i","n","s","(","@","c","l","a","s","s",","," ","'"," ","b","o","x"," ","'",")","]","/","/","p">>, "html", None),
     Rule(<<"t","o","t","a","l">>, <<"/","/","p">>, "count", None),
     Rule(<<"b","a","d">>, <<"/","/","p","/","f","o","l","l","o","w","i","n","g","-","s","i","b","l","i","n","g",":",":","a">>, "text", None),
     Rule(<<"p","a","n","e","l">>, <<"/","/","d","i","v">>, "object", None),
     [Rule(<<"c","a","r","d","s">>, <<"/","/","d","i","v">>, "object", None) EXCEPT
         !.fields = << << Rule(<<"p","s">>, <<".","/","/","p">>, "text", None),
                          Rule(<<"a","s">>, <<".","/","/","a">>, "text", None),
                          Rule(<<"n">>, <<".","/","/","a">>, "count", None) >> >>],
     [Rule(<<"c","a","r","d">>, <<"/","/","d","i","v","[","c","o","n","t","a","i","n","s","(","@","c","l","a","s","s",","," ","'"," ","b","o","x"," ","'",")","]">>, "object", None) EXCEPT
         !.children = << << Rule(<<"p","s">>, <<".","/","/","p">>, "text", None),
                            Rule(<<"t","o">>, <<".","/","/","a">>, "attribute", String(<<"h","r","e","f">>)),
                            Rule(<<"i","n","n","e","r">>, <<".","/","/","p">>, "object", None) >> >>],
     [Rule(<<"r","o","w","s">>, <<"/","/","d","i","v">>, "object", None) EXCEPT
         !.children = << << Rule(<<"p","s">>, <<".","/","/","p","[">>, "text", None) >> >>]}

DistinctNames(rules) == \A i, j \in 1..Len(rules) : i # j => rules[i].name # rules[j].name

\* the rule of the day numbers, with or without a map-item
DaysRule(xpath, mapped) ==
    [Rule(<<"d","a","y","s">>, xpath, "text", None) EXCEPT
        !.map_item = IF mapped
                     THEN << Rule(<<"i","t","e","m","s">>, <<".","/","/","a","/","t","e","x","t","(",")">>, "text", None) >>
                     ELSE <<>>]

\* a rule with a for-each-item: the month headings and their days
MonthsRule(name, xpath, days_xpath, mapped) ==
    [Rule(name, xpath, "text", None) EXCEPT
        !.for_each_item = << DaysRule(days_xpath, mapped) >>]

MonthsRules ==
    {MonthsRule(name, xpath, days_xpath, mapped) :
        name \in {<<"m","o","n","t","h","s">>, <<"c","a","l","e","n","d","a","r">>},
        xpath \in {<<"/","/","t","h">>, <<"/","/","t","h","/","f","o","l","l","o","w","i","n","g","-","s","i","b","l","i","n","g",":",":","t","d">>},
        days_xpath \in {<<"/","/","t","d","[","c","o","n","t","a","i","n","s","(","@","c","l","a","s","s",","," ","'"," ","c","a","l","t","a","b","l","e","t","d","n","u","m"," ","'",")","]">>, <<"/","/","t","d","[","l","a","s","t","(",")","]">>},
        mapped \in BOOLEAN}

\* what output_sample is for the configurations with a months rule
Samples ==
    {<<>>, << <<>> >>,
     << << Object(<< Entry(<<"{","m","o","n","t","h","s","}">>, RangeTemplate(1, 2, String(<<"x">>))) >>) >> >>}

Config(rules, output_sample) ==
    [name |-> <<"c","f","g">>, rules |-> rules, output_sample |-> output_sample]

\* the configurations, each with the document it is run against
HtmlScenarios ==
    {<<Config(rules, <<>>), "Links">> :
        rules \in {r \in SeqsUpTo(PlainRules, MaxRules) : DistinctNames(r)}}
    \cup {<<Config(<< Rule(<<"t","i","t","l","e">>, <<"/","/","p">>, "text", None),
                      Rule(<<"l","i","n","k">>, <<"/","/","a","/","t","e","x","t","(",")">>, "text", None),
                      Rule(<<"b","l","a","n","k">>, <<"/","/","s","p","a","n">>, "text", None) >>, <<>>), "Links">>}
    \cup {<<Config(rules, output_sample), p>> :
             rules \in UNION {{<< m >>, << m, Rule(<<"t","i","t","l","e">>, <<"/","/","t","h">>, "text", None) >>,
                               << Rule(<<"b","a","d">>, <<"/","/","t","h","/",".",".">>, "text", None), m >>} :
                              m \in MonthsRules},
             output_sample \in Samples,
             p \in {"March", "TwoMonths", "OneDay"}}

\* --------------------------------------------------------------------
\* Inputs of the selector translator: bounded path expressions
\* --------------------------------------------------------------------
Steps == {<<"/","/","d","i","v">>, <<"/","/","t","d">>, <<" ","/","/","t","r">>, <<".","/","/","f","o","n","t">>, <<"/","/","t","a","b","l","e","/","/","t","d">>, <<"/","/","a">>}

Predicates ==
    {<<>>, <<"[","1","]">>, <<"[","2","]">>, <<"[","3","]">>,
     <<"[","c","o","n","t","a","i","n","s","(","@","c","l","a","s","s",","," ","'"," ","b","o","x"," ","'",")","]">>, <<"[","c","o","n","t","a","i","n","s","(","@","c","l","a","s","s",",","'","b","o","x","'",")","]">>,
     <<"[","c","o","n","t","a","i","n","s","(","c","o","n","c","a","t","(","'"," ","'",","," ","@","c","l","a","s","s",","," ","'"," ","'",")",","," ","'"," ","b","o","x"," ","w","i","d","e"," ","'",")","]">>,
     <<"[","c","o","n","t","a","i","n","s","(","c","o","n","c","a","t","(","'"," ","'",","," ","@","c","l","a","s","s",","," ","'"," ","'",")",","," ","'"," ","b","o","x"," ","'",")","]">>,
     <<"[","c","o","n","t","a","i","n","s","(","c","o","n","c","a","t","(","'"," ","'",","," ","@","c","l","a","s","s",","," ","'"," ","'",")",","," ","'"," ","c","a","l","-","d","a","y"," ","'",")","]">>,
     <<"[","c","o","n","t","a","i","n","s","(","@","h","r","e","f",","," ","'","x","'",")","]">>, <<"[","c","o","n","t","a","i","n","s","(","@","h","r","e","f",","," ","'"," ","x"," ","'",")","]">>, <<"[","c","o","n","t","a","i","n","s","(","@","i","d",","," ","'","r","o","w","'",")","]">>,
     <<"[","c","o","n","t","a","i","n","s","(","@","h","r","e","f",","," ","'"," ","x"," ","'",")"," ","a","n","d"," ","c","o","n","t","a","i","n","s","(","@","c","l","a","s","s",","," ","'"," ","y"," ","'",")","]">>,
     <<"[","c","o","n","t","a","i","n","s","(",".",","," ","'","T","o","t","a","l","'",")","]">>, <<"[","@","i","d","=","'","x","'","]">>, <<"[","p","o","s","i","t","i","o","n","(",")",">","1","]">>, <<"[","l","a","s","t","(",")","]">>,
     <<"[","n","o","t","(","@","c","l","a","s","s",")","]">>}

Tails ==
    {<<>>, <<"/","t","e","x","t","(",")">>, <<"/","@","h","r","e","f">>, <<"/","a">>, <<"/","/","a","[","1","]">>, <<"/","f","o","l","l","o","w","i","n","g","-","s","i","b","l","i","n","g",":",":","t","d">>,
     <<"/","p","r","e","c","e","d","i","n","g","-","s","i","b","l","i","n","g",":",":","t","r","[","1","]">>, <<"/",".",".">>, <<"/","p","a","r","e","n","t",":",":","t","r">>, <<" ","|"," ","/","/","p">>}

Expressions ==
    {s \o p \o t : s \in Steps, p \in Predicates, t \in Tails}
    \cup {xpath_heading, xpath_stock_cell, xpath_stock_cell \o <<"/","/","a","/","t","e","x","t","(",")">>,
          xpath_day_of_stock, xpath_day_rows}
\* --------------------------------------------------------------------
\* State
\* --------------------------------------------------------------------
VARIABLES
    page,     \* the name of the parsed document
    tpl,      \* the template: output_sample[0]
    store,    \* the raw data store handed to the projector
    now,      \* the clock reading
    run1,     \* the result of a call of process_hierarchical_template
    run2,     \* the result of a second call with the same arguments
    sample,   \* config.output_sample
    output,   \* the result of generate_structured_output
    config,   \* the configuration handed to process_html
    cursor,   \* the index in config.rules of the rule the loop is at
    raw,      \* process_html's raw_data
    errs,     \* process_html's errors
    result,   \* what process_html returns
    xpath,    \* the expression handed to xpath_to_css_selector
    css,      \* what xpath_to_css_selector returns
    day,      \* the day label handed to find_items_for_day_in_month
    month,    \* its month argument
    resolved  \* what find_items_for_day_in_month returns

\* the variables of the projector, of process_html, of the translator and of
\* the resolver
tvars == <<tpl, store, now, run1, run2, sample, output>>

hvars == <<config, cursor, raw, errs, result>>

xvars == <<xpath, css>>

rvars == <<day, month, resolved>>

vars == <<page, tvars, hvars, xvars, rvars>>

\* a result not computed yet
Unset == [st |-> "unset", v |-> Null]

pending(r) == r.st = "unset"

\* the parts of the state a specification does not use
TemplateIdle ==
    /\ tpl = Null /\ store = <<>> /\ now = Clock2025
    /\ run1 = Unset /\ run2 = Unset /\ sample = <<>> /\ output = Unset

HtmlIdle ==
    /\ config = Config(<<>>, <<>>) /\ cursor = 0 /\ raw = <<>> /\ errs = <<>>
    /\ result = Unset

XPathIdle == xpath = <<>> /\ css = Unset

ResolverIdle == day = <<>> /\ month = None /\ resolved = Unset

\* --------------------------------------------------------------------
\* The projector specification: each call applied to bounded inputs
\* --------------------------------------------------------------------
InitTemplate ==
    /\ \E sc \in Scenarios : tpl = sc[1] /\ store = sc[2] /\ page = sc[3] /\ now = sc[4]
    /\ run1 = Unset
    /\ run2 = Unset
    /\ sample = <<>>
    /\ output = Unset
    /\ HtmlIdle
    /\ XPathIdle
    /\ ResolverIdle

Project ==
    /\ pending(run1)
    /\ \E seed \in Seeds :
          run1' = Ok(process_hierarchical_template(tpl, store, Document(page), now, seed))
    /\ UNCHANGED <<page, tpl, store, now, run2, sample, output, hvars, xvars, rvars>>

ProjectAgain ==
    /\ ~pending(run1) /\ pending(run2)
    /\ \E seed \in Seeds :
          run2' = Ok(process_hierarchical_template(tpl, store, Document(page), now, seed))
    /\ UNCHANGED <<page, tpl, store, now, run1, sample, output, hvars, xvars, rvars>>

\* process_html's call, for an output_sample of zero, one or two elements
Generate ==
    /\ ~pending(run2) /\ pending(output)
    /\ \E given \in {<<>>, <<tpl>>, <<tpl, Null>>}, seed \in Seeds :
          /\ sample' = given
          /\ output' = generate_structured_output(store, given, Document(page), now, seed)
    /\ UNCHANGED <<page, tpl, store, now, run1, run2, hvars, xvars, rvars>>

NextTemplate == Project \/ ProjectAgain \/ Generate

SpecTemplate == InitTemplate /\ [][NextTemplate]_vars

\* --------------------------------------------------------------------
\* Claims about the projector (checked under SpecTemplate)
\* --------------------------------------------------------------------

\* the template holds no string and no object key that starts with "{" and
\* ends with "}"
RECURSIVE IsLiteral(_)
IsLiteral(t) ==
    IF is_str(t) THEN ~is_placeholder(t.v)
    ELSE IF is_array(t) THEN \A i \in 1..Len(t.v) : IsLiteral(t.v[i])
    ELSE IF is_object(t)
    THEN \A i \in 1..Len(t.v) : ~is_placeholder(t.v[i].k) /\ IsLiteral(t.v[i].v)
    ELSE TRUE

\* C5: a template without any placeholder projects to itself, whatever the
\* raw data store holds.
C5_LiteralRoundTrip == (~pending(run1) /\ IsLiteral(tpl)) => run1 = Ok(tpl)

C5_Witness ==
    /\ ~pending(run1) /\ IsLiteral(tpl) /\ store # <<>>
    /\ is_object(tpl) /\ Len(tpl.v) = 2 /\ is_array(tpl.v[1].v)

\* the entries the claim expects for {daysN-M}: the days N..M without 0, in
\* increasing order, each with its day_items entry or an empty array
ExpectedRange(data, n, m) ==
    LET nums == SelectSeq(range(n, m), LAMBDA i : i # 0)
        day_items_value == get(data, <<"d","a","y","_","i","t","e","m","s">>)
        found(i) == IF is_object(day_items_value)
                    THEN get(day_items_value.v, to_string(i)) ELSE None
    IN  [j \in 1..Len(nums) |->
            Entry(to_string(nums[j]),
                  IF is_none(found(nums[j])) THEN Array(<<>>) ELSE found(nums[j]))]

\* C6 as claimed: with or without a day_items mapping, {daysN-M} (N <= M)
\* expands to exactly the days N..M without 0.
C6_Original ==
    \A n, m \in 0..MaxDay :
        (~pending(run1) /\ n <= m /\ tpl = RangeTemplate(n, m, String(<<"x">>)))
        => run1 = Ok(Object(ExpectedRange(store, n, m)))

\* C6 amended: when the raw data store holds a day_items mapping, {daysN-M}
\* (N <= M) expands to exactly the days N..M without 0, each mapped to its
\* day_items entry or to an empty array; the key {daysN-M} is not in the result.
C6_DayRange ==
    \A n, m \in 0..MaxDay :
        (/\ ~pending(run1) /\ n <= m /\ tpl = RangeTemplate(n, m, String(<<"x">>))
         /\ is_object(get(store, <<"d","a","y","_","i","t","e","m","s">>)))
        => run1 = Ok(Object(ExpectedRange(store, n, m)))

C6_Witness ==
    /\ ~pending(run1) /\ tpl = RangeTemplate(0, 3, String(<<"x">>))
    /\ get(store, <<"d","a","y","_","i","t","e","m","s">>) = DayItems
    /\ keys(run1.v.v) = << <<"1">>, <<"2">>, <<"3">> >>
    /\ run1.v.v[2].v = Array(<<>>)

IsPairTemplate == tpl = Array(<< Object(<< Entry(<<"{","A","}">>, String(<<"{","B","}">>)) >>) >>)

AllStrings(a) == \A i \in 1..Len(a) : is_str(a[i])

\* C7 as claimed: whenever rawData[A] and rawData[B] are arrays, zipping
\* yields exactly min(len A, len B) objects.
C7_Original ==
    (/\ ~pending(run1) /\ IsPairTemplate
     /\ is_array(get(store, <<"A">>)) /\ is_array(get(store, <<"B">>)))
    => /\ is_array(run1.v)
       /\ Len(run1.v.v) = Min(Len(get(store, <<"A">>).v), Len(get(store, <<"B">>).v))

\* C7 amended: when rawData[A] and rawData[B] are arrays of strings, zipping
\* yields exactly min(len A, len B) objects, the i-th being
\* {trim(A[i]): trim(B[i])}.
C7_PairedZip ==
    LET a == get(store, <<"A">>).v
        b == get(store, <<"B">>).v
    IN  (/\ ~pending(run1) /\ IsPairTemplate
         /\ is_array(get(store, <<"A">>)) /\ is_array(get(store, <<"B">>))
         /\ AllStrings(a) /\ AllStrings(b))
        => /\ is_array(run1.v)
           /\ Len(run1.v.v) = Min(Len(a), Len(b))
           /\ \A i \in 1..Len(run1.v.v) :
                 run1.v.v[i] = Object(<< Entry(trim(a[i].v), String(trim(b[i].v))) >>)

C7_Witness ==
    /\ ~pending(run1) /\ IsPairTemplate
    /\ get(store, <<"A">>) = Array(<< String(<<" ","b"," ">>), String(<<"a">>) >>)
    /\ get(store, <<"B">>) = Array(<< String(<<" ","v">>) >>)
    /\ run1 = Ok(Array(<< Object(<< Entry(<<"b">>, String(<<"v">>)) >>) >>))

\* the place of a month name in the calendar, 12 for any other name
CalendarRank(name) ==
    CASE name = <<"J","a","n","u","a","r","y">> -> 0 [] name = <<"F","e","b","r","u","a","r","y">> -> 1 [] name = <<"M","a","r","c","h">> -> 2
      [] name = <<"A","p","r","i","l">> -> 3 [] name = <<"M","a","y">> -> 4 [] name = <<"J","u","n","e">> -> 5
      [] name = <<"J","u","l","y">> -> 6 [] name = <<"A","u","g","u","s","t">> -> 7 [] name = <<"S","e","p","t","e","m","b","e","r">> -> 8
      [] name = <<"O","c","t","o","b","e","r">> -> 9 [] name = <<"N","o","v","e","m","b","e","r">> -> 10 [] name = <<"D","e","c","e","m","b","e","r">> -> 11
      [] OTHER -> 12

\* the keys of the projected object that the {months} entry produced
MonthKeys ==
    SelectSeq(keys(run1.v.v), LAMBDA key : key # <<"y","e","a","r">>)

C9_Deterministic == (~pending(run1) /\ ~pending(run2)) => run1 = run2

\* C10: generate_structured_output returns a JSON value for every output
\* sample, the empty one included.
C10_NeverFails == ~pending(output) => output.st = "Ok"


\* --------------------------------------------------------------------
\* The rule evaluator specification: process_html, one rule at a time
\* --------------------------------------------------------------------
InitHtml ==
    /\ \E sc \in HtmlScenarios : config = sc[1] /\ page = sc[2]
    /\ cursor = 1
    /\ raw = <<>>
    /\ errs = <<>>
    /\ result = Unset
    /\ TemplateIdle
    /\ XPathIdle
    /\ ResolverIdle

\* one iteration of `for rule in &config.rules`
RuleStep ==
    /\ pending(result)
    /\ cursor <= Len(config.rules)
    /\ \E s \in {rule_step(Document(page), config.rules[cursor], raw, errs)} :
          IF s.abort
          THEN /\ result' = [st |-> "Err", v |-> s.error]
               /\ UNCHANGED <<cursor, raw, errs>>
          ELSE /\ cursor' = cursor + 1
               /\ raw' = s.raw_data
               /\ errs' = s.errors
               /\ UNCHANGED result
    /\ UNCHANGED <<page, config, tvars, xvars, rvars>>

\* after the loop: the structured data and the ExtractionResult
Finish ==
    /\ pending(result)
    /\ cursor > Len(config.rules)
    /\ \E seed \in Seeds :
          result' = extraction_result(config,
                                      structured_data(config, raw, Document(page),
                                                      Clock2025, seed),
                                      errs)
    /\ UNCHANGED <<page, config, cursor, raw, errs, tvars, xvars, rvars>>

NextHtml == RuleStep \/ Finish

SpecHtml == InitHtml /\ [][NextHtml]_vars

\* --------------------------------------------------------------------
\* The translator specification: xpath_to_css_selector on bounded inputs
\* --------------------------------------------------------------------
InitXPath ==
    /\ xpath \in Expressions
    /\ css = Unset
    /\ page = "Links"
    /\ TemplateIdle
    /\ HtmlIdle
    /\ ResolverIdle

Translate ==
    /\ pending(css)
    /\ css' = xpath_to_css_selector(xpath)
    /\ UNCHANGED <<page, xpath, tvars, hvars, rvars>>

NextXPath == Translate

SpecXPath == InitXPath /\ [][NextXPath]_vars

\* --------------------------------------------------------------------
\* The resolver specification: find_items_for_day_in_month on bounded inputs
\* --------------------------------------------------------------------
InitResolver ==
    /\ page \in CalendarPages
    /\ day \in DayLabelsAsked
    /\ month \in MonthsAsked
    /\ resolved = Unset
    /\ TemplateIdle
    /\ HtmlIdle
    /\ XPathIdle

Resolve ==
    /\ pending(resolved)
    /\ resolved' = Ok(Array(find_items_for_day_in_month(Document(page), day, month)))
    /\ UNCHANGED <<page, day, month, tvars, hvars, xvars>>

NextResolver == Resolve

SpecResolver == InitResolver /\ [][NextResolver]_vars

\* --------------------------------------------------------------------
\* Claims about the rule evaluator (checked under SpecHtml)
\* --------------------------------------------------------------------

\* two JSON values are the same value
same(a, b) == a.t = b.t /\ a = b

\* a Text, Attribute or Html rule that process_rule evaluates by itself
IsValueRule(rule) ==
    rule.extract_type \in {"text", "attribute", "html"} /\ rule.for_each_item = <<>>

\* the values such a rule yields in the document, in document order
Yielded(rule) ==
    extract_values(Document(page), select(Document(page), rule_selector(rule).sel), rule)

\* the rules the loop has been through whose values the collapse law is about
Collapsed ==
    {i \in 1..Len(config.rules) :
        i < cursor /\ IsValueRule(config.rules[i]) /\ rule_selector(config.rules[i]).ok}

\* C1 as claimed: zero values give null, one value gives the scalar, two or
\* more give the array of them in document order.
C1_Original ==
    \A i \in Collapsed :
        same(get(raw, config.rules[i].name),
             IF Len(Yielded(config.rules[i])) = 0 THEN Null
             ELSE IF Len(Yielded(config.rules[i])) = 1 THEN Yielded(config.rules[i])[1]
             ELSE Array(Yielded(config.rules[i])))

\* C1 amended: for every Text, Attribute or Html rule evaluated by
\* process_rule, zero values give the empty array, exactly one value gives
\* that scalar, and two or more values give the array of them in document
\* order.
C1_Collapse ==
    \A i \in Collapsed :
        same(get(raw, config.rules[i].name),
             IF Len(Yielded(config.rules[i])) = 0 THEN Array(<<>>)
             ELSE IF Len(Yielded(config.rules[i])) = 1 THEN Yielded(config.rules[i])[1]
             ELSE Array(Yielded(config.rules[i])))

\* a run over three text rules that yield three values, one value and none
C1_Witness ==
    /\ page = "Links" /\ Len(config.rules) = 3 /\ cursor = 4 /\ Collapsed = {1, 2, 3}
    /\ get(raw, <<"t","i","t","l","e">>) = Array(<< String(<<"o","n","e">>), String(<<"t","w","o">>), String(<<"s","o","l","o">>) >>)
    /\ get(raw, <<"l","i","n","k">>) = String(<<"l","i","n","k">>)
    /\ get(raw, <<"b","l","a","n","k">>) = Array(<<>>)

\* the evaluation of the rule fails: process_rule returns an error, or the
\* selector of a "months" rule with a for-each-item cannot be parsed
Fails(rule) ==
    \/ process_rule(Document(page), rule).st = "Err"
    \/ rule.name = <<"m","o","n","t","h","s">> /\ rule.for_each_item # <<>> /\ ~rule_selector(rule).ok

\* the list without its i-th element
without(rules, i) == SubSeq(rules, 1, i - 1) \o SubSeq(rules, i + 1, Len(rules))

\* the raw data store of the run over the rules without the i-th
StoreWithout(i) == process_rules(Document(page), without(config.rules, i), <<>>, <<>>).raw_data

\* what the claim asks of the failing i-th rule of a finished run
Isolated(i) ==
    /\ Cardinality({e \in 1..Len(errs) : contains(errs[e], config.rules[i].name)}) = 1
    /\ same(get(raw, config.rules[i].name), Null)
    /\ \A j \in 1..Len(config.rules) :
          j # i => same(get(raw, config.rules[j].name),
                        get(StoreWithout(i), config.rules[j].name))

\* C2: when the evaluation of a rule fails, exactly one error names the
\* rule, its name maps to null in the raw data store, and every other rule
\* has the value it has in the run without the failing rule.
C2_Isolation ==
    ~pending(result)
    => \A i \in 1..Len(config.rules) : Fails(config.rules[i]) => Isolated(i)

\* the same for the runs that process_html does not abort
C2_IsolationOfCompletedRuns ==
    (~pending(result) /\ cursor > Len(config.rules))
    => \A i \in 1..Len(config.rules) : Fails(config.rules[i]) => Isolated(i)

\* C3: process_html returns Ok(ExtractionResult) for every configuration
\* (here: those without an output sample, so that the projector is not
\* called), a "months" rule with a for-each-item included.
C3_NeverAborts == (~pending(result) /\ config.output_sample = <<>>) => result.st = "Ok"

\* --------------------------------------------------------------------
\* Claims about the selector translator (checked under SpecXPath)
\* --------------------------------------------------------------------

\* constructs outside the supported subset: sibling and parent axes, the
\* parent step, position functions, negation and union
UnsupportedMarkers ==
    {<<"f","o","l","l","o","w","i","n","g","-","s","i","b","l","i","n","g",":",":">>, <<"p","r","e","c","e","d","i","n","g","-","s","i","b","l","i","n","g",":",":">>, <<"p","a","r","e","n","t",":",":">>, <<"/",".",".">>,
     <<"p","o","s","i","t","i","o","n","(",")">>, <<"l","a","s","t","(",")">>, <<"n","o","t","(">>, <<" ","|"," ">>}

Unsupported(expression) == \E m \in UnsupportedMarkers : contains(expression, m)

\* C4: an expression that uses a construct outside the supported subset is
\* answered with an error, never with Ok and a selector string.
C4_RejectsUnsupported == (~pending(css) /\ Unsupported(xpath)) => css.st = "Err"

\* --------------------------------------------------------------------
\* Claims about nested and Object rules (checked under SpecHtml)
\* --------------------------------------------------------------------

\* a rule with a for-each-item that has a map-item, stored under its own
\* name, whose for-each-item is a Text rule with a selector that parses
IsMappedRule(rule) ==
    /\ rule.for_each_item # <<>>
    /\ rule.name # <<"m","o","n","t","h","s">>
    /\ rule.for_each_item[1].map_item # <<>>
    /\ IsValueRule(rule.for_each_item[1])
    /\ rule_selector(rule.for_each_item[1]).ok

\* the rules the loop has been through that are of this kind
Mapped == {i \in 1..Len(config.rules) : i < cursor /\ IsMappedRule(config.rules[i])}

\* the array of the resolver's items for each day of the day sequence
ItemsPerDay(days) ==
    Array([k \in 1..Len(days) |-> Array(find_items_for_day(Document(page), days[k].v))])

\* C11: a rule whose for-each-item yields the day sequence d1..dn (one
\* scalar counting as a sequence of one) and has a map-item evaluates to an
\* array of exactly n arrays, the k-th being the resolver's items for dk.
C11_MapItem ==
    \A i \in Mapped :
        same(get(raw, config.rules[i].name),
             ItemsPerDay(Yielded(config.rules[i].for_each_item[1])))

\* the table of March: days 1 and 2 over the items AAA and BBB, CCC
C11_Witness ==
    /\ page = "March" /\ Mapped = {1}
    /\ Yielded(config.rules[1].for_each_item[1]) = << String(<<"1">>), String(<<"2">>) >>
    /\ get(raw, <<"c","a","l","e","n","d","a","r">>) = Array(<< Array(<< String(<<"A","A","A">>) >>),
                                       Array(<< String(<<"B","B","B">>), String(<<"C","C","C">>) >>) >>)

\* an Object rule with child rules whose evaluation succeeds
IsObjectRule(rule) ==
    /\ rule.extract_type = "object"
    /\ rule.for_each_item = <<>>
    /\ rule.children # <<>> \/ rule.fields # <<>>
    /\ process_rule(Document(page), rule).st = "Ok"

ChildrenOf(rule) == IF rule.children # <<>> THEN rule.children[1] ELSE rule.fields[1]

\* the elements the rule's selector matches, in document order
MatchedBy(rule) == select(Document(page), rule_selector(rule).sel)

\* the elements of the document that the child rule's selector matches and
\* that lie below the element e
InSubtree(e, child_rule) ==
    LET below(x) == is_ancestor(Document(page), e, x)
    IN  SelectSeq(select(Document(page), rule_selector(child_rule).sel), below)

\* the objects of a result: the array's elements, or the one value
ObjectsOf(value) == IF is_array(value) THEN value.v ELSE << value >>

\* obj is the object of the matched element e: every child name is a key,
\* and its value is that of a child rule of this name over e's subtree
ObjectOf(obj, e, children_rules) ==
    /\ obj.t = "obj"
    /\ \A k \in 1..Len(obj.v) :
          \E c \in 1..Len(children_rules) : children_rules[c].name = obj.v[k].k
    /\ \A c \in 1..Len(children_rules) :
          /\ contains_key(obj.v, children_rules[c].name)
          /\ \E d \in 1..Len(children_rules) :
                /\ children_rules[d].name = children_rules[c].name
                /\ same(get(obj.v, children_rules[c].name),
                        IF children_rules[d].extract_type = "object" THEN Null
                        ELSE rule_value(Document(page),
                                        InSubtree(e, children_rules[d]),
                                        children_rules[d]))

ObjectRules == {i \in 1..Len(config.rules) : i < cursor /\ IsObjectRule(config.rules[i])}

ShapeOf(value, es, children_rules) ==
    /\ Len(ObjectsOf(value)) = Len(es)
    /\ Len(es) >= 2 => is_array(value)
    /\ \A k \in 1..Len(es) : ObjectOf(ObjectsOf(value)[k], es[k], children_rules)

\* C12: an Object rule with child rules evaluates to one object per element
\* its selector matches, in document order; each object has every child
\* name as a key, each child value is computed from the elements below that
\* matched element only, and two or more matched elements give an array.
C12_ObjectShape ==
    \A i \in ObjectRules :
        ShapeOf(get(raw, config.rules[i].name), MatchedBy(config.rules[i]),
                ChildrenOf(config.rules[i]))

\* two boxes: the first with two paragraphs and a link, the second with one
\* paragraph and no link
C12_Witness ==
    /\ page = "Links" /\ 1 \in ObjectRules /\ Len(MatchedBy(config.rules[1])) = 2
    /\ get(raw, <<"c","a","r","d","s">>) =
          Array(<< Object(<< Entry(<<"p","s">>, Array(<< String(<<"o","n","e">>), String(<<"t","w","o">>) >>)),
                             Entry(<<"a","s">>, String(<<"l","i","n","k">>)),
                             Entry(<<"n">>, Number(1)) >>),
                   Object(<< Entry(<<"p","s">>, String(<<"s","o","l","o">>)),
                             Entry(<<"a","s">>, Array(<<>>)),
                             Entry(<<"n">>, Number(0)) >>) >>)

\* --------------------------------------------------------------------
\* Claims about the order of results (checked under SpecHtml)
\* --------------------------------------------------------------------

\* a is the beginning of b
IsPrefix(a, b) == Len(a) <= Len(b) /\ a = SubSeq(b, 1, Len(a))

\* the names of the rules as declared
DeclaredNames == [i \in 1..Len(config.rules) |-> config.rules[i].name]

\* the keys of a store that are names of rules (the keys days and
\* day_items that a "months" rule adds are not)
RuleKeys(m) ==
    LET declared(k) == \E i \in 1..Len(config.rules) : config.rules[i].name = k
    IN  SelectSeq(keys(m), declared)

\* the declared rules whose evaluation fails, in declaration order
Failing ==
    LET fails(i) == Fails(config.rules[i])
    IN  SelectSeq(range(1, Len(config.rules)), fails)

\* the k-th error is the one of the k-th failing rule
ErrorsAsDeclared(errors) ==
    /\ Len(errors) = Len(Failing)
    /\ \A k \in 1..Len(Failing) :
          starts_with(errors[k],
                      <<"E","r","r","o","r"," ","p","r","o","c","e","s","s","i","n","g"," ","r","u","l","e"," ","'">> \o config.rules[Failing[k]].name \o <<"'">>)

\* each iteration appends: what the store and the errors list held stays in
\* front
PopulatedInOrder == IsPrefix(keys(raw), keys(raw')) /\ IsPrefix(errs, errs')

\* the result of a run without output sample: rule keys and errors are in
\* declaration order
EmittedInOrder ==
    (result.st = "Ok" /\ config.output_sample = <<>>)
    => /\ RuleKeys(result.v.data.v) = DeclaredNames
       /\ ErrorsAsDeclared(result.v.errors)

\* C13: the raw data store is populated in rule-declaration order and the
\* errors list grows in the same order: every iteration appends, and the
\* emitted store has the rules' keys, and the errors list the errors of the
\* failing rules, in declaration order (rules of pairwise different names).
C13_DeclarationOrder == [][PopulatedInOrder]_vars /\ []EmittedInOrder

\* a finished run over two failing rules
C13_Witness ==
    /\ result.st = "Ok" /\ Len(config.rules) = 2 /\ Failing = << 1, 2 >>
    /\ keys(result.v.data.v) = << <<"b","a","d">>, <<"p","a","n","e","l">> >>
    /\ Len(result.v.errors) = 2
    /\ contains(result.v.errors[1], <<"'","b","a","d","'">>)
    /\ contains(result.v.errors[2], <<"'","p","a","n","e","l","'">>)

\* --------------------------------------------------------------------
\* Claims about the named lookup (checked under SpecTemplate)
\* --------------------------------------------------------------------

IsDigits(s) == s # <<>> /\ \A i \in 1..Len(s) : s[i] \in DigitSet

\* the reserved identifiers: the clock, months, days<digits> and
\* days<digits>-<digits>
Reserved(id) ==
    \/ id \in {<<"c","u","r","r","e","n","t","Y","e","a","r">>, <<"c","u","r","r","e","n","t","M","o","n","t","h">>, <<"c","u","r","r","e","n","t","D","a","y">>, <<"c","u","r","r","e","n","t","D","a","t","e">>, <<"m","o","n","t","h","s">>}
    \/ /\ starts_with(id, <<"d","a","y","s">>)
       /\ \/ IsDigits(from(id, 4))
          \/ \E i \in 5..Len(id) :
                /\ id[i] = "-"
                /\ IsDigits(SubSeq(id, 5, i - 1))
                /\ IsDigits(SubSeq(id, i + 1, Len(id)))

\* identifiers of more than four characters that begin with "days"
DaysPrefixed(id) == starts_with(id, <<"d","a","y","s">>) /\ Len(id) > 4

\* the template is the string {identifier}, the identifier is not reserved
\* and is a key of the store
IsNamedString ==
    /\ is_str(tpl) /\ is_placeholder(tpl.v)
    /\ ~Reserved(strip_braces(tpl.v))
    /\ contains_key(store, strip_braces(tpl.v))

\* the stored value of the template's identifier
Stored == get(store, strip_braces(tpl.v))

\* C14 as claimed: the string {identifier} projects to the trimmed first
\* element of a stored array, or to the trimmed stored scalar.
C14_Original ==
    (~pending(run1) /\ IsNamedString)
    => /\ (is_array(Stored) /\ Stored.v # <<>> /\ is_str(Stored.v[1]))
             => run1 = Ok(String(trim(Stored.v[1].v)))
       /\ is_str(Stored) => run1 = Ok(String(trim(Stored.v)))

\* C14 amended: for an identifier that is not reserved, does not begin with
\* "days" followed by further characters, and is a key of the store, the
\* string {identifier} projects to the stored value itself: the whole array
\* when it is an array, a string as stored, without trimming.
C14_StoredValue ==
    (~pending(run1) /\ IsNamedString /\ ~DaysPrefixed(strip_braces(tpl.v)))
    => run1 = Ok(Stored)

\* {title} over a stored array of two untrimmed strings
C14_Witness ==
    /\ ~pending(run1) /\ IsNamedString /\ tpl = String(<<"{","t","i","t","l","e","}">>)
    /\ Stored = Array(<< String(<<" ","a"," ">>), String(<<"b">>) >>)
    /\ run1 = Ok(Stored)

\* the one-entry object template {"{X}": sub} whose X is not reserved and is
\* a key of the store with a value an object key can be made of: a string,
\* or an array that begins with a string
IsNamedKey ==
    /\ is_object(tpl) /\ Len(tpl.v) = 1 /\ is_placeholder(tpl.v[1].k)
    /\ ~Reserved(strip_braces(tpl.v[1].k))
    /\ contains_key(store, strip_braces(tpl.v[1].k))
    /\ LET x == get(store, strip_braces(tpl.v[1].k))
       IN  is_str(x) \/ (is_array(x) /\ x.v # <<>> /\ is_str(x.v[1]))

\* C15: a placeholder {X} whose X is not reserved and is a key of the store
\* is resolved against the stored value, as a string value and as an object
\* key, and is not passed through as the literal {X}; names that begin with
\* "days", such as daysOfWeek, included.
C15_ResolvedByLookup ==
    ~pending(run1)
    => /\ IsNamedString => run1 # Ok(tpl)
       /\ IsNamedKey => ~contains_key(run1.v.v, tpl.v[1].k)

\* the same for the names that do not begin with "days"
C15_OtherNames ==
    ~pending(run1)
    => /\ (IsNamedString /\ ~DaysPrefixed(strip_braces(tpl.v))) => run1 # Ok(tpl)
       /\ (IsNamedKey /\ ~DaysPrefixed(strip_braces(tpl.v[1].k)))
             => ~contains_key(run1.v.v, tpl.v[1].k)

\* --------------------------------------------------------------------
\* Claims about month expansion (checked under SpecTemplate)
\* --------------------------------------------------------------------

\* the months the store holds as the evaluator stores them: the array of
\* the headings, or the one heading as a scalar
StoredMonths ==
    LET months == get(store, <<"m","o","n","t","h","s">>)
    IN  IF is_array(months) THEN months.v
        ELSE IF is_str(months) THEN << months >>
        ELSE <<>>

\* the month name of a heading: its first token
MonthName(label) == split_whitespace_next(label.v)

\* the template is {"{months}": sub} and the store holds one or more
\* headings with pairwise different month names
IsMonthExpansion ==
    /\ is_object(tpl) /\ Len(tpl.v) = 1 /\ tpl.v[1].k = <<"{","m","o","n","t","h","s","}">>
    /\ StoredMonths # <<>>
    /\ \A i \in 1..Len(StoredMonths) : is_str(StoredMonths[i])
    /\ \A i, j \in 1..Len(StoredMonths) :
          i # j => MonthName(StoredMonths[i]) # MonthName(StoredMonths[j])

\* C16: with k >= 1 months of pairwise different names in the store (one
\* heading stored as a scalar included), the entry {months} yields exactly k
\* entries keyed by the month names and no entry keyed {months}.
C16_OnePerMonth ==
    (~pending(run1) /\ IsMonthExpansion)
    => /\ Len(run1.v.v) = Len(StoredMonths)
       /\ {run1.v.v[i].k : i \in 1..Len(run1.v.v)}
             = {MonthName(StoredMonths[i]) : i \in 1..Len(StoredMonths)}
       /\ ~contains_key(run1.v.v, <<"{","m","o","n","t","h","s","}">>)
       /\ tpl.v[1].v = String(<<"x">>)
             => \A i \in 1..Len(run1.v.v) : run1.v.v[i].v = String(<<"x">>)

\* the same for the stores that hold an array of months
C16_MonthsArray ==
    (~pending(run1) /\ IsMonthExpansion /\ is_array(get(store, <<"m","o","n","t","h","s">>)))
    => /\ Len(run1.v.v) = Len(StoredMonths)
       /\ {run1.v.v[i].k : i \in 1..Len(run1.v.v)}
             = {MonthName(StoredMonths[i]) : i \in 1..Len(StoredMonths)}
       /\ ~contains_key(run1.v.v, <<"{","m","o","n","t","h","s","}">>)

\* the label of a month entry: its month name and year
MonthLabel(label) ==
    LET of(tokens) == IF Len(tokens) >= 2 THEN tokens[1] \o <<" ">> \o tokens[2]
                      ELSE tokens[1]
    IN  of(split_whitespace(label.v))

\* the store scoped to the month entry: every day key of day_items with the
\* resolver's items for it in the tables whose text contains the label
ScopedTo(label) ==
    LET day_items == get(store, <<"d","a","y","_","i","t","e","m","s">>).v
    IN  insert(store, <<"d","a","y","_","i","t","e","m","s">>,
               Object([i \in 1..Len(day_items) |->
                          Entry(day_items[i].k,
                                Array(find_items_for_day_in_month(
                                          Document(page), day_items[i].k,
                                          String(MonthLabel(label)))))]))

\* the template {"{months}": {"{days1-2}": "x"}} over a store with an array
\* of months and a day_items mapping: each month's entry shows day_items of
\* the store its sub-template was projected with
ShowsScopedStore ==
    /\ tpl = Object(<< Entry(<<"{","m","o","n","t","h","s","}">>, RangeTemplate(1, 2, String(<<"x">>))) >>)
    /\ IsMonthExpansion
    /\ is_array(get(store, <<"m","o","n","t","h","s">>))
    /\ is_object(get(store, <<"d","a","y","_","i","t","e","m","s">>))

\* C17: the store a month's sub-template is projected with has, for every
\* day key of day_items, the resolver's items for that day in exactly the
\* tables whose text contains the month's label, whatever its year.
C17_MonthScoped ==
    (~pending(run1) /\ ShowsScopedStore)
    => \A i \in 1..Len(StoredMonths) :
          get(run1.v.v, MonthName(StoredMonths[i]))
             = Object(ExpectedRange(ScopedTo(StoredMonths[i]), 1, 2))

\* the same for the months whose label carries the year 2025
C17_MonthsOf2025 ==
    (~pending(run1) /\ ShowsScopedStore)
    => \A i \in 1..Len(StoredMonths) :
          ends_with(MonthLabel(StoredMonths[i]), <<" ","2","0","2","5">>)
          => get(run1.v.v, MonthName(StoredMonths[i]))
                = Object(ExpectedRange(ScopedTo(StoredMonths[i]), 1, 2))

\* a template object of two entries, the first being {months}, over a store
\* with an array of months
MonthsThenOther ==
    /\ is_object(tpl) /\ Len(tpl.v) = 2 /\ tpl.v[1].k = <<"{","m","o","n","t","h","s","}">>
    /\ is_array(get(store, <<"m","o","n","t","h","s">>))

\* the entries the template object of the one entry projects to, against
\* the store as the caller passed it
Alone(entry) ==
    process_hierarchical_template(Object(<< entry >>), store, Document(page), now,
                                  [i \in 1..MaxDays |-> i]).v

\* the entries of an object, whatever their order
Entries(m) == {m[i] : i \in 1..Len(m)}

\* C18: month expansion leaves the caller's store as it is: the entry
\* that follows {months} in the same template object is projected against
\* the original store, its unfiltered day_items included, so the result holds
\* the months' entries and what the other entry yields on its own.
C18_NoLeak ==
    (~pending(run1) /\ MonthsThenOther)
    => Entries(run1.v.v) = Entries(Alone(tpl.v[1])) \cup Entries(Alone(tpl.v[2]))

\* two months, then the days 1 and 2 with the items of both tables
C18_Witness ==
    /\ ~pending(run1) /\ MonthsThenOther /\ page = "TwoMonths"
    /\ is_object(get(store, <<"d","a","y","_","i","t","e","m","s">>))
    /\ {run1.v.v[i].k : i \in 1..Len(run1.v.v)} = {<<"J","a","n","u","a","r","y">>, <<"M","a","r","c","h">>, <<"1">>, <<"2">>}
    /\ get(run1.v.v, <<"1">>) = Array(<< String(<<"A","A","A">>), String(<<"J","J","J">>) >>)

\* --------------------------------------------------------------------
\* Claims about the numbered days (checked under SpecTemplate)
\* --------------------------------------------------------------------

StoredDays == array_or_empty(store, <<"d","a","y","s">>)

StoredItems == array_or_empty(store, <<"i","t","e","m","s">>)

\* the store holds a days array of one or more strings
HasDayStrings == StoredDays # <<>> /\ AllStrings(StoredDays)

\* the slice process_numbered_days_with_items returns for the index
Slice(day_index) == process_numbered_days_with_items(store, day_index).v

\* C19: for a days array of D >= 1 strings, the slices of the indices
\* 0..D-1, concatenated in index order, are the items array; every slice
\* but the last has floor(len(items)/D) items and the last has the rest;
\* the string {daysN} projects to the slice of N.
C19_EvenSplitPartition ==
    (~pending(run1) /\ HasDayStrings)
    => /\ concat([i \in 1..Len(StoredDays) |-> Slice(i - 1)]) = StoredItems
       /\ \A i \in 1..(Len(StoredDays) - 1) :
             Len(Slice(i - 1)) = Len(StoredItems) \div Len(StoredDays)
       /\ \A n \in 0..(Len(StoredDays) - 1) :
             tpl = DayIndexTemplate(n) => run1 = Ok(Array(Slice(n)))

\* three items over two days: the last day has two of them
C19_Witness ==
    /\ ~pending(run1) /\ HasDayStrings /\ tpl = DayIndexTemplate(1)
    /\ Len(StoredDays) = 2 /\ Len(StoredItems) = 3
    /\ run1 = Ok(Array(<< String(<<"i","2">>), String(<<"i","3">>) >>))

\* the template is {"{daysN}": sub} for an index N of a string of the days
\* array
IsDayIndexKey(n) ==
    /\ is_object(tpl) /\ Len(tpl.v) = 1
    /\ tpl.v[1].k = <<"{","d","a","y","s">> \o to_string(n) \o <<"}">>
    /\ n < Len(StoredDays) /\ is_str(StoredDays[n + 1])

\* the trimmed label of the N-th day
DayLabel(n) == trim(StoredDays[n + 1].v)

\* C20: the entry {daysN} yields an entry keyed by the trimmed N-th day;
\* its value is day_items of that label when the store has a day_items
\* mapping with it, and the even split of the items array only when the
\* store has no day_items mapping.
C20_PrefersDayItems ==
    \A n \in 0..MaxDays :
        (~pending(run1) /\ IsDayIndexKey(n))
        => LET day_items == get(store, <<"d","a","y","_","i","t","e","m","s">>)
           IN  /\ (is_object(day_items) /\ contains_key(day_items.v, DayLabel(n)))
                     => run1 = Ok(Object(<< Entry(DayLabel(n),
                                                  get(day_items.v, DayLabel(n))) >>))
               /\ ~is_object(day_items)
                     => run1 = Ok(Object(<< Entry(DayLabel(n), Array(Slice(n))) >>))

\* the same for the stores without a day_items mapping
C20_EvenSplitWithoutDayItems ==
    \A n \in 0..MaxDays :
        (~pending(run1) /\ IsDayIndexKey(n) /\ ~is_object(get(store, <<"d","a","y","_","i","t","e","m","s">>)))
        => run1 = Ok(Object(<< Entry(DayLabel(n), Array(Slice(n))) >>))

\* the items the round-robin gives the label: items[i] for the indices i
\* (from 0) with trim(days[i mod D]) = label, in increasing i
RoundRobin(label) ==
    LET mine(i) == trim(StoredDays[((i - 1) % Len(StoredDays)) + 1].v) = label
        of(indices) == [k \in 1..Len(indices) |-> StoredItems[indices[k]]]
    IN  of(SelectSeq(range(1, Len(StoredItems)), mine))

DayLabels == {trim(StoredDays[i].v) : i \in 1..Len(StoredDays)}

\* the number of items in the lists of the object's first n entries
RECURSIVE Listed(_, _)
Listed(m, n) == IF n = 0 THEN 0 ELSE Listed(m, n - 1) + Len(m[n].v.v)

Qualifies(c) ==
    /\ contains(c.heading, <<"E","x","-","D","i","v","i","d","e","n","d"," ","C","a","l","e","n","d","a","r">>)
    /\ is_none(month) \/ contains(c.heading, month.v)

\* the links of the cell in column col of the row after row i of the
\* calendar, when that row is a row of item cells that has this column
CellBelow(c, i, col) ==
    IF i + 1 <= Len(c.rows) /\ c.rows[i + 1].kind = "items"
       /\ col <= Len(c.rows[i + 1].cells)
    THEN c.rows[i + 1].cells[col]
    ELSE <<>>

\* the columns of row i of the calendar that hold the day label
ColumnsOf(c, i) ==
    LET holds(col) == trim(c.rows[i].cells[col]) = day
    IN  IF c.rows[i].kind = "days" THEN SelectSeq(range(1, Len(c.rows[i].cells)), holds)
        ELSE <<>>

\* the items by position: for every row of days and every column that
\* holds the label, the links of the same column of the next row
ByPosition(c) ==
    LET row(i, cols) == concat([k \in 1..Len(cols) |-> CellBelow(c, i, cols[k])])
    IN  concat([i \in 1..Len(c.rows) |-> row(i, ColumnsOf(c, i))])

\* the strings as JSON values
Strings(texts) == [i \in 1..Len(texts) |-> String(texts[i])]

\* the calendars of the document that qualify
Qualifying == SelectSeq(Calendars(page), Qualifies)

\* C22: when the day label sits in the c-th cell of a row of day numbers,
\* the resolver returns the links of the c-th cell of the next row when
\* that row has item cells, c being the label's column in its row, also
\* when cells before it in the row of day numbers are empty.
C22_Positional ==
    ~pending(resolved)
    => resolved.v.v
          = Strings(concat([n \in 1..Len(Qualifying) |-> ByPosition(Qualifying[n])]))

\* a row of day numbers of the document has an empty cell
HasBlankDay ==
    \E n \in 1..Len(Calendars(page)) : \E i \in 1..Len(Calendars(page)[n].rows) :
        /\ Calendars(page)[n].rows[i].kind = "days"
        /\ \E col \in 1..Len(Calendars(page)[n].rows[i].cells) :
              trim(Calendars(page)[n].rows[i].cells[col]) = <<>>

\* the same for the documents whose rows of day numbers have no empty cell
C22_WithoutBlankDays ==
    (~pending(resolved) /\ ~HasBlankDay)
    => resolved.v.v
          = Strings(concat([n \in 1..Len(Qualifying) |-> ByPosition(Qualifying[n])]))

\* what the resolver returns for the document that holds only the calendar
InTableAlone(c) == find_items_for_day_in_month(CalendarPage(<< c >>), day, month)

\* a row of day numbers that holds the label is immediately followed by a
\* row of item cells, in a calendar that qualifies
HasItemsRow ==
    \E n \in 1..Len(Qualifying) : \E i \in 1..Len(Qualifying[n].rows) :
        /\ ColumnsOf(Qualifying[n], i) # <<>>
        /\ i + 1 <= Len(Qualifying[n].rows)
        /\ Qualifying[n].rows[i + 1].kind = "items"

\* C23: the resolver returns Ok; the result is the concatenation, over the
\* qualifying tables in document order, of the items found for the label in
\* each table, and it is empty when no row of day numbers holding the label
\* is immediately followed by a row with item cells.
C23_Accumulates ==
    ~pending(resolved)
    => /\ resolved.st = "Ok"
       /\ resolved.v.v
             = concat([n \in 1..Len(Qualifying) |-> InTableAlone(Qualifying[n])])
       /\ ~HasItemsRow => resolved.v.v = <<>>

\* the day 1 of two months, asked without a month
C23_Witness ==
    /\ ~pending(resolved) /\ page = "Both" /\ day = <<"1">> /\ is_none(month)
    /\ Len(Qualifying) = 2
    /\ resolved.v.v = << String(<<"A","A","A">>), String(<<"J","J","J">>) >>

\* --------------------------------------------------------------------
\* Claims about contains predicates (checked under SpecXPath)
\* --------------------------------------------------------------------
ContainsTags == {<<"d","i","v">>, <<"t","d">>, <<"a">>}
ContainsClasses == {<<"b","o","x">>, <<"c","a","l","-","d","a","y">>}
ContainsAttributes == {<<<<"h","r","e","f">>, <<"x">>>>, <<<<"i","d">>, <<"r","o","w">>>>}

\* //t[contains(concat(' ', @class, ' '), ' c ')]
ClassIdiom(t, c) ==
    <<"/","/">> \o t \o <<"[","c","o","n","t","a","i","n","s","(","c","o","n","c","a","t","(","'"," ","'",","," ","@","c","l","a","s","s",","," ","'"," ","'",")",","," ","'"," ">> \o c \o <<" ","'",")","]">>

\* //t[contains(@a, 'v')]
AttributeContains(t, a, v) ==
    <<"/","/">> \o t \o <<"[","c","o","n","t","a","i","n","s","(","@">> \o a \o <<","," ","'">> \o v \o <<"'",")","]">>

\* the class-list idiom becomes the class selector t.c and is not rendered
\* as an attribute-substring selector
C24_ClassIdiom ==
    ~pending(css)
    => /\ \A t \in ContainsTags, c \in ContainsClasses :
             xpath = ClassIdiom(t, c) => css = Ok(t \o <<".">> \o c)
       /\ contains(xpath, <<"c","o","n","t","a","i","n","s","(","c","o","n","c","a","t","(","'"," ","'",","," ","@","c","l","a","s","s",","," ","'"," ","'",")",","," ">>)
             => css.st = "Ok" /\ ~contains(css.v, <<"*","=">>)

\* C24: //t[contains(concat(' ', @class, ' '), ' c ')] is translated to the
\* class selector t.c, //t[contains(@a, 'v')] with a other than class to the
\* attribute-substring selector t[a*="v"], and the class-list idiom is never
\* rendered as an attribute-substring selector.
C24_ContainsPredicates ==
    /\ C24_ClassIdiom
    /\ ~pending(css)
       => \A t \in ContainsTags, p \in ContainsAttributes :
             xpath = AttributeContains(t, p[1], p[2])
             => css = Ok(t \o <<"[">> \o p[1] \o <<"*","=","\"">> \o p[2] \o <<"\"","]">>)

\* a class-list idiom has been translated to its class selector
C24_ClassWitness ==
    /\ ~pending(css)
    /\ xpath = ClassIdiom(<<"a">>, <<"c","a","l","-","d","a","y">>)
    /\ css.st = "Ok"
    /\ css.v = <<"a",".","c","a","l","-","d","a","y">>

\* an attribute predicate has been left as it was written
C24_AttributeLeft ==
    /\ ~pending(css)
    /\ xpath = AttributeContains(<<"a">>, <<"h","r","e","f">>, <<"x">>)
    /\ css.st = "Ok"
    /\ css.v = <<"a","[","c","o","n","t","a","i","n","s","(","h","r","e","f",","," ","\"","x","\"",")","]">>
====
